---- MODULE Spec2Model ----
(***************************************************************************)
(* agb-hashmap: a Robin Hood open-addressing HashMap (src/agb-hashmap/     *)
(* src/lib.rs).  The front end (HashMap, Iter, IterOwned) is translated    *)
(* from lib.rs.  The modules `node` and `node_storage` that lib.rs         *)
(* declares are not part of the source tree; NodeStorage and Node are      *)
(* modelled from spec.md sections 3 and 4 (Locate, Insert-new, Remove-at,  *)
(* Resize, retain, clear).                                                 *)
(***************************************************************************)
EXTENDS Integers, Sequences, FiniteSets, TLC

\* ------------------------------------------------------------------ bounds
\* keys are 0..MaxKey
MaxKey == 2
\* with_size(2^i) is tried for i in 0..MaxSizeLog
MaxSizeLog == 2
\* where two maps are compared, the keys of both are 0..MaxEqKey
MaxEqKey == 1
MaxCap == 3

Keys == 0 .. MaxKey
\* one key more, for the maps that are only inserted into and removed from:
\* a table of size 4 grows when the fourth key goes in
MoreKeys == 0 .. MaxKey + 1
EqKeys == 0 .. MaxEqKey
\* Value payloads.  The map never looks into a value: two payloads are what
\* it takes to tell the value of the latest insert from an older one.
Vals == {0, 1}

\* The hash function (FxHasher) is a black box: the model picks, once, any
\* function from keys to these u32 values.  They collide modulo every table
\* size and fall into the last bucket, so probe runs wrap around the array.
HashVals == {0, 15}

\* The code never orders keys (it uses only Eq and Hash), so key names are
\* interchangeable: one hash function is taken per renaming of the keys.
Hashers(keys) ==
    {h \in [keys -> HashVals] : \A k \in keys : k + 1 \in keys => h[k] <= h[k + 1]}

\* ------------------------------------------------------------- program data
\* HashMap::new_in: the backing size of new()
NewSize == 16

RECURSIVE Pow2(_)
Pow2(i) == IF i = 0 THEN 1 ELSE 2 * Pow2(i - 1)

None == <<>>
Some(x) == <<x>>
IsSome(o) == Len(o) = 1
Unwrap(o) == o[1]

\* A key or value object: its payload and the identity of the object.
Obj(payload, id) == [p |-> payload, id |-> id]
NoObj == [p |-> -1, id |-> -1]

\* Node: Empty, or Occupied{key, value, dib} (with the key's hash, which
\* take_key_value hands back).
EmptyNode == [has |-> FALSE, key |-> NoObj, value |-> NoObj, dib |-> 0, hash |-> 0]
NewNode(key, value, hash) == [has |-> TRUE, key |-> key, value |-> value, dib |-> 0, hash |-> hash]

\* const fn number_before_resize
number_before_resize(capacity) == (capacity * 85) \div 100

VARIABLES
    droppable,  \* K and V are drop-tracked objects (test::Droppable), not plain i32
    phase,      \* "map": the map is owned by the caller; "entry": borrowed by an
                \* Entry; "iter": borrowed by an Iter; "owned": consumed by an
                \* IterOwned; "dropped": gone
    hasher,     \* the hash function, [Keys -> HashVals]
    nodes,      \* NodeStorage.nodes: [0 .. size-1 -> Node]
    count,      \* NodeStorage: the count of occupied slots
    entry,      \* the Entry handed out by entry(): kind, key, location
    it,         \* the iterator: at, num_found
    snap,       \* the nodes when the iteration started
    yielded,    \* what the iterator has yielded so far, in order
    answers,    \* reference associative map of test::extreme_case
    other,      \* a second map, to compare with: nodes, count, answers
    requested,  \* the capacity with_capacity was called with (0: new, with_size)
    op,         \* the last operation and its arguments
    ret,        \* what the last operation returned
    handed,     \* objects the last operation was given, in order
    dropped,    \* objects the last operation dropped, in order
    returned,   \* objects the last operation gave (back) to the caller
    calls,      \* the (key, value) pairs the last operation called its closure on
    locates,    \* hash + Locate computations since (and with) the last entry()
    resizes,    \* calls of HashMap::resize the last operation made
    panic,      \* the message the last operation panicked with ("": it returned)
    manager,    \* the VRamManager: tilesets, generation, free_pointer,
                \* tile_set_to_vram, references, vram_free_pointer
    debug_assertions,  \* cfg(debug_assertions) of the build the VRamManager runs in
    given,      \* the TileSetReferences add_tileset returned, with the tiles of each
    in_use      \* the TileIndex values add_tile returned and remove_tile has not taken

vars == <<requested, droppable, phase, hasher, nodes, count, entry, it, snap, yielded, answers, other,
          op, ret, handed, dropped, returned, calls, locates, resizes, panic,
          manager, debug_assertions, given, in_use>>

\* the VRamManager and its caller, which the maps leave alone
vram == <<manager, debug_assertions, given, in_use>>

\* no VRamManager is made
NoManager == <<>>
NoVram ==
    /\ manager = NoManager
    /\ debug_assertions = FALSE
    /\ given = {}
    /\ in_use = {}

\* ---------------------------------------------------------------- NodeStorage
backing_vec_size(ns) == Cardinality(DOMAIN ns)
capacity(ns) == number_before_resize(backing_vec_size(ns))

with_size_in(size) == [p \in 0 .. size - 1 |-> EmptyNode]

Occupied(ns) == {p \in DOMAIN ns : ns[p].has}

\* Locate(key, hash): probe from the ideal bucket; stop at an Empty slot or at
\* an Occupied slot whose dib is smaller than the distance travelled.
RECURSIVE LocateFrom(_, _, _, _)
LocateFrom(ns, k, hash, d) ==
    LET size == backing_vec_size(ns)
        p == (hash + d) % size
    IN  IF d >= size THEN None
        ELSE IF ~ns[p].has THEN None
        ELSE IF ns[p].key.p = k THEN Some(p)
        ELSE IF ns[p].dib < d THEN None
        ELSE LocateFrom(ns, k, hash, d + 1)

location(ns, k, hash) == LocateFrom(ns, k, hash, 0)

\* Insert-new: the Robin Hood walk.  `trav` is the travelling node, `pos` the
\* slot probed, `at` where the new key was put (-1: not yet), `fuel` the
\* probes left before the walk has gone once round the array; `probes` is the
\* number of slots the walk looked at (loc -2: it is still walking after a
\* whole round, there is no Empty slot).
RECURSIVE InsertWalk(_, _, _, _, _)
InsertWalk(ns, trav, pos, at, fuel) ==
    LET size == backing_vec_size(ns)
        cur == ns[pos]
        nxt == (pos + 1) % size
    IN  IF fuel = 0 THEN [nodes |-> ns, loc |-> -2, probes |-> size + 1]
        ELSE IF ~cur.has
        THEN [nodes |-> [ns EXCEPT ![pos] = trav], loc |-> IF at = -1 THEN pos ELSE at,
              probes |-> size - fuel + 1]
        ELSE IF cur.dib < trav.dib
        THEN InsertWalk([ns EXCEPT ![pos] = trav], [cur EXCEPT !.dib = @ + 1], nxt,
                        IF at = -1 THEN pos ELSE at, fuel - 1)
        ELSE InsertWalk(ns, [trav EXCEPT !.dib = @ + 1], nxt, at, fuel - 1)

\* Faulty variant of insert_new: plain linear probing, the new entry goes into
\* the first Empty slot and no resident is displaced.
insert_new_linear(ns, key, value, hash) ==
    LET size == backing_vec_size(ns)
        d == CHOOSE d \in 0 .. size - 1 :
                 /\ ~ns[(hash + d) % size].has
                 /\ \A e \in 0 .. d - 1 : ns[(hash + e) % size].has
    IN  [nodes |-> [ns EXCEPT ![(hash + d) % size] =
                                 [NewNode(key, value, hash) EXCEPT !.dib = d]],
         loc |-> (hash + d) % size, probes |-> d + 1]

insert_new(ns, key, value, hash) ==
    InsertWalk(ns, NewNode(key, value, hash), hash % backing_vec_size(ns), -1,
               backing_vec_size(ns))

\* Remove-at: backward shift from the emptied slot.
RECURSIVE ShiftBack(_, _)
ShiftBack(ns, pos) ==
    LET nxt == (pos + 1) % backing_vec_size(ns)
    IN  IF ns[nxt].has /\ ns[nxt].dib > 0
        THEN ShiftBack([ns EXCEPT ![pos] = [ns[nxt] EXCEPT !.dib = @ - 1],
                                  ![nxt] = EmptyNode], nxt)
        ELSE ns

\* Faulty variant of remove_from_location: the slot is emptied and the run
\* behind it is left where it is.
remove_from_location_no_shift(ns, loc) == [ns EXCEPT ![loc] = EmptyNode]

remove_from_location(ns, loc) == ShiftBack([ns EXCEPT ![loc] = EmptyNode], loc)

\* replace_at_location: the value is replaced in place, the stored key stays.
replace_at_location(ns, loc, key, value) == [ns EXCEPT ![loc].value = value]

\* Resize: every Occupied entry is re-inserted into a fresh array.
RECURSIVE Migrate(_, _, _)
Migrate(old, new, p) ==
    IF p >= backing_vec_size(old) THEN new
    ELSE IF old[p].has
    THEN Migrate(old, insert_new(new, old[p].key, old[p].value, old[p].hash).nodes, p + 1)
    ELSE Migrate(old, new, p + 1)

\* Faulty variant of resized_to: the nodes are copied slot for slot.
resized_by_copy(ns, new_size) ==
    [p \in 0 .. new_size - 1 |-> IF p \in DOMAIN ns THEN ns[p] ELSE EmptyNode]

resized_to(ns, new_size) == Migrate(ns, with_size_in(new_size), 0)

\* ------------------------------------------------------------------- HashMap
Hash(k) == hasher[k]

len == count

NoPanic == ""
ResizeAssert == "Can only increase the size of a hash map"
InsertNewHangs == "insert_new finds no Empty slot"
UnwrapNone == "called Option::unwrap() on a None value"
NoEntryFound == "no entry found for key"
CapacityPanic == "Failed to come up with a size which satisfies capacity"

\* Faulty variant of resize: the new storage is allocated but the entries are
\* not carried over.
resize_fresh(ns, new_size) ==
    IF new_size < backing_vec_size(ns) THEN [nodes |-> ns, panic |-> ResizeAssert]
    ELSE [nodes |-> with_size_in(new_size), panic |-> NoPanic]

\* Faulty variant of resize: the storage is left as it is.
resize_kept(ns, new_size) ==
    IF new_size < backing_vec_size(ns) THEN [nodes |-> ns, panic |-> ResizeAssert]
    ELSE [nodes |-> ns, panic |-> NoPanic]

\* HashMap::resize: [nodes, panic]
resize(ns, new_size) ==
    IF new_size < backing_vec_size(ns) THEN [nodes |-> ns, panic |-> ResizeAssert]
    ELSE IF new_size = backing_vec_size(ns) THEN [nodes |-> ns, panic |-> NoPanic]
    ELSE [nodes |-> resized_to(ns, new_size), panic |-> NoPanic]

get_key_value(ns, k) ==
    LET l == location(ns, k, Hash(k))
    IN  IF IsSome(l) THEN Some(<<ns[Unwrap(l)].key, ns[Unwrap(l)].value>>) ELSE None

get(ns, k) ==
    LET kv == get_key_value(ns, k)
    IN  IF IsSome(kv) THEN Some(Unwrap(kv)[2]) ELSE None

contains_key(ns, k) == IsSome(location(ns, k, Hash(k)))

get_mut(ns, k) ==
    LET l == location(ns, k, Hash(k))
    IN  IF IsSome(l) THEN Some(ns[Unwrap(l)].value) ELSE None

\* Faulty variant of index: an absent key gives nothing, without a panic.
index_quiet(ns, k) == [ret |-> get(ns, k), panic |-> NoPanic]

\* Index::index: `self.get(key).expect("no entry found for key")`, [ret, panic]
index(ns, k) ==
    LET v == get(ns, k)
    IN  IF IsSome(v) THEN [ret |-> v, panic |-> NoPanic]
        ELSE [ret |-> None, panic |-> NoEntryFound]

\* The objects a caller hands in.  For plain Copy types (i32) an object is
\* its payload (identity 0).  For drop-tracked types (test::Droppable) the
\* object handed in with key k is distinct from every object the map owns:
\* of the two objects per key, the one the map does not hold under k.
StoredUnder(ns, k) == {p \in Occupied(ns) : ns[p].key.p = k}
NewKey(ns, k) ==
    IF ~droppable THEN Obj(k, 0)
    ELSE IF \E p \in StoredUnder(ns, k) : ns[p].key.id = 2 * k + 1 THEN Obj(k, 2 * k + 2)
    ELSE Obj(k, 2 * k + 1)
NewValue(ns, k, v) ==
    IF ~droppable THEN Obj(v, 0)
    ELSE IF \E p \in StoredUnder(ns, k) : ns[p].value.id = 2 * k + 1 THEN Obj(v, 2 * k + 2)
    ELSE Obj(v, 2 * k + 1)
\* drop-tracked values carry no payload but their identity
ValsOf(d) == IF d THEN {0} ELSE Vals

K(o) == <<"key", o>>
V(o) == <<"value", o>>

\* every object the storage owns, in slot order
RECURSIVE OwnedFrom(_, _)
OwnedFrom(ns, p) ==
    IF p \notin DOMAIN ns THEN <<>>
    ELSE IF ns[p].has THEN <<K(ns[p].key), V(ns[p].value)>> \o OwnedFrom(ns, p + 1)
    ELSE OwnedFrom(ns, p + 1)
Owned(ns) == OwnedFrom(ns, 0)

NoEntry == [kind |-> "none", key |-> NoObj, location |-> -1]
NoIter == [at |-> 0, num_found |-> 0]
NoNodes == with_size_in(0)
NoOther == [nodes |-> NoNodes, count |-> 0, answers |-> <<>>]
Op(name, key, value) == [name |-> name, key |-> key, value |-> value]
Borrowed(k) == Obj(k, -1)
IdleOp == Op("idle", NoObj, NoObj)

\* The caller makes one call on the map at a time: it looks at what the call
\* returned (Continue) before it makes the next.
Idle == op = IdleOp

\* what an operation leaves behind for the observer
Ghost(o, r, h, d, rt, c, l, rs, pn) ==
    /\ op' = o
    /\ ret' = r
    /\ handed' = h
    /\ dropped' = d
    /\ returned' = rt
    /\ calls' = c
    /\ locates' = l
    /\ resizes' = rs
    /\ panic' = pn

Continue ==
    /\ phase = "map" /\ ~Idle
    /\ Ghost(IdleOp, None, <<>>, <<>>, <<>>, <<>>, 0, 0, NoPanic)
    /\ UNCHANGED <<vram, requested, other, droppable, phase, hasher, nodes, count, entry, it, snap, yielded, answers>>

\* Faulty variant of GrowTo: the table is halved.
HalfSize(ns) == backing_vec_size(ns) \div 2

\* Faulty variant of GrowTo: the table grows fourfold.
QuadSize(ns) == backing_vec_size(ns) * 4

\* where insert grows the table to
GrowTo(ns) == backing_vec_size(ns) * 2

\* Faulty variant of GrowAndInsert: the table grows only once len() has gone
\* past capacity().
GrowAndInsertLate(ns, cnt, key, value, hash) ==
    LET full == capacity(ns) < cnt
        grown == IF full THEN resize(ns, GrowTo(ns)) ELSE [nodes |-> ns, panic |-> NoPanic]
        n == IF full THEN 1 ELSE 0
    IN  IF grown.panic # NoPanic
        THEN [nodes |-> ns, loc |-> -1, resizes |-> n, panic |-> grown.panic]
        ELSE LET r == insert_new(grown.nodes, key, value, hash)
             IN  IF r.loc = -2
                 THEN [nodes |-> ns, loc |-> -1, resizes |-> n, panic |-> InsertNewHangs]
                 ELSE [nodes |-> r.nodes, loc |-> r.loc, resizes |-> n, panic |-> NoPanic]

\* `if capacity() <= len() { resize(size * 2) }  insert_new(key, value, hash)`
GrowAndInsert(ns, cnt, key, value, hash) ==
    LET full == capacity(ns) <= cnt
        grown == IF full THEN resize(ns, GrowTo(ns)) ELSE [nodes |-> ns, panic |-> NoPanic]
        n == IF full THEN 1 ELSE 0
    IN  IF grown.panic # NoPanic
        THEN [nodes |-> ns, loc |-> -1, resizes |-> n, panic |-> grown.panic]
        ELSE LET r == insert_new(grown.nodes, key, value, hash)
             IN  IF r.loc = -2
                 THEN [nodes |-> ns, loc |-> -1, resizes |-> n, panic |-> InsertNewHangs]
                 ELSE [nodes |-> r.nodes, loc |-> r.loc, resizes |-> n, panic |-> NoPanic]

\* Faulty variants of insert.
\* insert_grow_first: the threshold is tested before the key is looked up.
insert_grow_first(ns, cnt, key, value) ==
    LET hash == Hash(key.p)
        full == capacity(ns) <= cnt
        grown == IF full THEN resize(ns, GrowTo(ns)).nodes ELSE ns
        n == IF full THEN 1 ELSE 0
        l == location(grown, key.p, hash)
    IN  IF IsSome(l)
        THEN [nodes |-> replace_at_location(grown, Unwrap(l), key, value), count |-> cnt,
              ret |-> Some(grown[Unwrap(l)].value), dropped |-> <<K(key)>>,
              returned |-> <<V(grown[Unwrap(l)].value)>>, resizes |-> n, panic |-> NoPanic]
        ELSE [nodes |-> insert_new(grown, key, value, hash).nodes, count |-> cnt + 1,
              ret |-> None, dropped |-> <<>>, returned |-> <<>>, resizes |-> n,
              panic |-> NoPanic]
\* insert_replaces_key: an overwrite stores the incoming key and drops the
\* stored one.
insert_replaces_key(ns, cnt, key, value) ==
    LET hash == Hash(key.p)
        l == location(ns, key.p, hash)
    IN  IF IsSome(l)
        THEN [nodes |-> [ns EXCEPT ![Unwrap(l)].key = key, ![Unwrap(l)].value = value],
              count |-> cnt, ret |-> Some(ns[Unwrap(l)].value),
              dropped |-> <<K(ns[Unwrap(l)].key)>>,
              returned |-> <<V(ns[Unwrap(l)].value)>>, resizes |-> 0, panic |-> NoPanic]
        ELSE LET r == GrowAndInsert(ns, cnt, key, value, hash)
             IN  [nodes |-> r.nodes, count |-> cnt + 1, ret |-> None, dropped |-> <<>>,
                  returned |-> <<>>, resizes |-> r.resizes, panic |-> r.panic]

\* Faulty variant of HashMap::insert: the key is never looked up, every
\* insert goes the way of a new key.
insert_unlocated(ns, cnt, key, value) ==
    LET r == GrowAndInsert(ns, cnt, key, value, Hash(key.p))
    IN  IF r.panic # NoPanic
        THEN [nodes |-> ns, count |-> cnt, ret |-> None,
              dropped |-> <<K(key), V(value)>>, returned |-> <<>>,
              resizes |-> r.resizes, panic |-> r.panic]
        ELSE [nodes |-> r.nodes, count |-> cnt + 1, ret |-> None, dropped |-> <<>>,
              returned |-> <<>>, resizes |-> r.resizes, panic |-> NoPanic]

\* HashMap::insert(key, value): [nodes, count, ret, dropped, returned, resizes, panic]
insert(ns, cnt, key, value) ==
    LET hash == Hash(key.p)
        l == location(ns, key.p, hash)
    IN  IF IsSome(l)
        THEN [nodes |-> replace_at_location(ns, Unwrap(l), key, value), count |-> cnt,
              ret |-> Some(ns[Unwrap(l)].value), dropped |-> <<K(key)>>,
              returned |-> <<V(ns[Unwrap(l)].value)>>, resizes |-> 0, panic |-> NoPanic]
        ELSE LET r == GrowAndInsert(ns, cnt, key, value, hash)
             IN  IF r.panic # NoPanic
                 THEN [nodes |-> ns, count |-> cnt, ret |-> None,
                       dropped |-> <<K(key), V(value)>>, returned |-> <<>>,
                       resizes |-> r.resizes, panic |-> r.panic]
                 ELSE [nodes |-> r.nodes, count |-> cnt + 1, ret |-> None, dropped |-> <<>>,
                       returned |-> <<>>, resizes |-> r.resizes, panic |-> NoPanic]

Insert(k, v) ==
    /\ phase = "map" /\ Idle
    /\ v \in ValsOf(droppable)
    /\ LET key == NewKey(nodes, k)
           value == NewValue(nodes, k, v)
           r == insert(nodes, len, key, value)
       IN  /\ nodes' = r.nodes
           /\ count' = r.count
           /\ answers' = IF r.panic = NoPanic THEN [answers EXCEPT ![k] = Some(value)]
                         ELSE answers
           /\ Ghost(Op("insert", key, value), r.ret, <<K(key), V(value)>>, r.dropped,
                    r.returned, <<>>, 1, r.resizes, r.panic)
    /\ UNCHANGED <<vram, requested, other, droppable, phase, hasher, entry, it, snap, yielded>>

\* Faulty variants of remove.
\* remove_tombstone: the slot is emptied but the run behind it is not shifted.
remove_tombstone(ns, cnt, k) ==
    LET l == location(ns, k, Hash(k))
    IN  IF IsSome(l)
        THEN [nodes |-> [ns EXCEPT ![Unwrap(l)] = EmptyNode], count |-> cnt - 1,
              ret |-> Some(ns[Unwrap(l)].value), dropped |-> <<K(ns[Unwrap(l)].key)>>,
              returned |-> <<V(ns[Unwrap(l)].value)>>]
        ELSE [nodes |-> ns, count |-> cnt, ret |-> None, dropped |-> <<>>, returned |-> <<>>]
\* remove_peek: the value is handed out but the entry stays.
remove_peek(ns, cnt, k) ==
    LET l == location(ns, k, Hash(k))
    IN  IF IsSome(l)
        THEN [nodes |-> ns, count |-> cnt - 1,
              ret |-> Some(ns[Unwrap(l)].value), dropped |-> <<K(ns[Unwrap(l)].key)>>,
              returned |-> <<V(ns[Unwrap(l)].value)>>]
        ELSE [nodes |-> ns, count |-> cnt, ret |-> None, dropped |-> <<>>, returned |-> <<>>]
\* remove_leaks: the stored key is forgotten, never dropped.
remove_leaks(ns, cnt, k) ==
    LET l == location(ns, k, Hash(k))
    IN  IF IsSome(l)
        THEN [nodes |-> remove_from_location(ns, Unwrap(l)), count |-> cnt - 1,
              ret |-> Some(ns[Unwrap(l)].value), dropped |-> <<>>,
              returned |-> <<V(ns[Unwrap(l)].value)>>]
        ELSE [nodes |-> ns, count |-> cnt, ret |-> None, dropped |-> <<>>, returned |-> <<>>]
\* remove_unchecked: the ideal bucket is taken for the key's slot without
\* comparing keys.
remove_unchecked(ns, cnt, k) ==
    LET l == Hash(k) % backing_vec_size(ns)
    IN  IF ns[l].has
        THEN [nodes |-> remove_from_location(ns, l), count |-> cnt - 1,
              ret |-> IF ns[l].key.p = k THEN Some(ns[l].value) ELSE None,
              dropped |-> <<K(ns[l].key)>>,
              returned |-> <<V(ns[l].value)>>]
        ELSE [nodes |-> ns, count |-> cnt, ret |-> None, dropped |-> <<>>, returned |-> <<>>]

\* HashMap::remove(&key): [nodes, count, ret, dropped, returned]
remove(ns, cnt, k) ==
    LET l == location(ns, k, Hash(k))
    IN  IF IsSome(l)
        THEN [nodes |-> remove_from_location(ns, Unwrap(l)), count |-> cnt - 1,
              ret |-> Some(ns[Unwrap(l)].value), dropped |-> <<K(ns[Unwrap(l)].key)>>,
              returned |-> <<V(ns[Unwrap(l)].value)>>]
        ELSE [nodes |-> ns, count |-> cnt, ret |-> None, dropped |-> <<>>, returned |-> <<>>]

Remove(k) ==
    /\ phase = "map" /\ Idle
    /\ LET r == remove(nodes, count, k)
       IN  /\ nodes' = r.nodes
           /\ count' = r.count
           /\ Ghost(Op("remove", Borrowed(k), NoObj), r.ret, <<>>, r.dropped, r.returned,
                    <<>>, 1, 0, NoPanic)
    /\ answers' = [answers EXCEPT ![k] = None]
    /\ UNCHANGED <<vram, requested, other, droppable, phase, hasher, entry, it, snap, yielded>>

\* A lookup through &self (or, get_mut, &mut self): the map is left alone.
Lookup(name, k, r, pn) ==
    /\ phase = "map" /\ Idle
    /\ Ghost(Op(name, Borrowed(k), NoObj), r, <<>>, <<>>, <<>>, <<>>, 1, 0, pn)
    /\ UNCHANGED <<vram, requested, other, droppable, phase, hasher, nodes, count, entry, it, snap, yielded,
                   answers>>

ContainsKey(k) == Lookup("contains_key", k, Some(contains_key(nodes, k)), NoPanic)
GetKeyValue(k) == Lookup("get_key_value", k, get_key_value(nodes, k), NoPanic)
Get(k) == Lookup("get", k, get(nodes, k), NoPanic)
GetMut(k) == Lookup("get_mut", k, get_mut(nodes, k), NoPanic)
Index(k) == \E r \in {index(nodes, k)} : Lookup("index", k, r.ret, r.panic)

\* The closures retain is called with: keep the keys, or the value payloads,
\* of a set.
Preds == {[by |-> "key", set |-> S] : S \in SUBSET Keys}
         \cup {[by |-> "value", set |-> S] : S \in (SUBSET Vals) \ {{}, Vals}}
Pred(f, key, value) == IF f.by = "key" THEN key.p \in f.set ELSE value.p \in f.set

\* NodeStorage::retain: scan the slots in order; a slot whose entry is removed
\* is looked at again, as the backward shift may have filled it.
RECURSIVE RetainScan(_, _, _, _, _, _)
RetainScan(ns, cnt, i, f, cl, dr) ==
    IF i >= backing_vec_size(ns) THEN [nodes |-> ns, count |-> cnt, calls |-> cl, dropped |-> dr]
    ELSE IF ~ns[i].has THEN RetainScan(ns, cnt, i + 1, f, cl, dr)
    ELSE IF Pred(f, ns[i].key, ns[i].value)
    THEN RetainScan(ns, cnt, i + 1, f, Append(cl, <<ns[i].key, ns[i].value>>), dr)
    ELSE RetainScan(remove_from_location(ns, i), cnt - 1, i, f,
                    Append(cl, <<ns[i].key, ns[i].value>>),
                    dr \o <<K(ns[i].key), V(ns[i].value)>>)

\* Faulty variant of retain: the scan starts after the first slot.
retain_after_first(ns, cnt, f) == RetainScan(ns, cnt, 1, f, <<>>, <<>>)

retain(ns, cnt, f) == RetainScan(ns, cnt, 0, f, <<>>, <<>>)

\* HashMap::retain(f)
Retain(f) ==
    /\ phase = "map" /\ Idle
    /\ LET r == retain(nodes, count, f)
       IN  /\ nodes' = r.nodes
           /\ count' = r.count
           /\ Ghost([name |-> "retain", key |-> NoObj, value |-> NoObj, f |-> f], None,
                    <<>>, r.dropped, <<>>, r.calls, 0, 0, NoPanic)
    /\ answers' = [k \in DOMAIN answers |->
                     IF IsSome(answers[k]) /\ ~Pred(f, Obj(k, 0), Unwrap(answers[k]))
                     THEN None ELSE answers[k]]
    /\ UNCHANGED <<vram, requested, other, droppable, phase, hasher, entry, it, snap, yielded>>

\* HashMap::clear(): a fresh storage of the same size
\* Faulty variant of clear: the map starts over as new() makes it.
clear_to_new(ns) == with_size_in(NewSize)

clear(ns) == with_size_in(backing_vec_size(ns))

Clear ==
    /\ phase = "map" /\ Idle
    /\ nodes' = clear(nodes)
    /\ count' = 0
    /\ answers' = [k \in DOMAIN answers |-> None]
    /\ Ghost(Op("clear", NoObj, NoObj), None, <<>>, Owned(nodes), <<>>, <<>>, 0, 0, NoPanic)
    /\ UNCHANGED <<vram, requested, other, droppable, phase, hasher, entry, it, snap, yielded>>

\* the map goes out of scope
DropMap ==
    /\ phase = "map" /\ Idle
    /\ phase' = "dropped"
    /\ nodes' = NoNodes
    /\ count' = 0
    /\ answers' = [k \in DOMAIN answers |-> None]
    /\ Ghost(Op("drop", NoObj, NoObj), None, <<>>, Owned(nodes), <<>>, <<>>, 0, 0, NoPanic)
    /\ UNCHANGED <<vram, requested, other, droppable, hasher, entry, it, snap, yielded>>

\* --------------------------------------------------------------------- Iter
RECURSIVE SkipEmpty(_, _)
SkipEmpty(ns, at) ==
    IF at >= backing_vec_size(ns) THEN at
    ELSE IF ns[at].has THEN at
    ELSE SkipEmpty(ns, at + 1)

\* Iter::next: [it, item], item = None at the end
Iter_next(ns, i) ==
    LET p == SkipEmpty(ns, i.at)
    IN  IF p >= backing_vec_size(ns)
        THEN [it |-> [i EXCEPT !.at = p], item |-> None]
        ELSE [it |-> [at |-> p + 1, num_found |-> i.num_found + 1],
              item |-> Some(<<ns[p].key, ns[p].value>>)]

\* Faulty variant of Iter::size_hint: the slots passed are taken for the
\* entries found.
size_hint_by_slot(cnt, i) == <<cnt - i.at, Some(cnt - i.at)>>

\* Iter::size_hint
Iter_size_hint(cnt, i) == <<cnt - i.num_found, Some(cnt - i.num_found)>>

\* HashMap::iter() / (&map).into_iter()
IterNew ==
    /\ phase = "map" /\ Idle
    /\ phase' = "iter"
    /\ it' = [at |-> 0, num_found |-> 0]
    /\ snap' = nodes
    /\ yielded' = <<>>
    /\ Ghost(Op("iter", NoObj, NoObj), None, <<>>, <<>>, <<>>, <<>>, 0, 0, NoPanic)
    /\ UNCHANGED <<vram, requested, other, droppable, hasher, nodes, count, entry, answers>>

\* Iter::next()
IterNext ==
    /\ phase = "iter"
    /\ LET s == Iter_next(nodes, it)
       IN  /\ it' = s.it
           /\ yielded' = IF IsSome(s.item) THEN Append(yielded, Unwrap(s.item)) ELSE yielded
           /\ Ghost(Op("next", NoObj, NoObj), s.item, <<>>, <<>>, <<>>, <<>>, 0, 0, NoPanic)
    /\ UNCHANGED <<vram, requested, other, droppable, phase, hasher, nodes, count, entry, snap, answers>>

\* the Iter goes out of scope: the borrow of the map ends
IterDrop ==
    /\ phase = "iter"
    /\ phase' = "map"
    /\ it' = NoIter
    /\ snap' = NoNodes
    /\ yielded' = <<>>
    /\ Ghost(Op("iter_drop", NoObj, NoObj), None, <<>>, <<>>, <<>>, <<>>, 0, 0, NoPanic)
    /\ UNCHANGED <<vram, requested, other, droppable, hasher, nodes, count, entry, answers>>

\* ---------------------------------------------------------------- IterOwned
\* HashMap::into_iter(): the map moves into the iterator
IntoIter ==
    /\ phase = "map" /\ Idle
    /\ phase' = "owned"
    /\ it' = [at |-> 0, num_found |-> 0]
    /\ snap' = nodes
    /\ yielded' = <<>>
    /\ Ghost(Op("into_iter", NoObj, NoObj), None, <<>>, <<>>, <<>>, <<>>, 0, 0, NoPanic)
    /\ UNCHANGED <<vram, requested, other, droppable, hasher, nodes, count, entry, answers>>

\* Faulty variant of Node::take_key_value: the key and the value are read out
\* and the node is left Occupied.
take_key_value_left(ns, p) == ns

\* Node::take_key_value on the node at p: the node is left Empty
take_key_value(ns, p) == [ns EXCEPT ![p] = EmptyNode]

\* Faulty variant of IterOwned::next: the entry is taken out with the
\* backward shift of remove.
IterOwned_next_shifting(ns, i) ==
    LET p == SkipEmpty(ns, i.at)
    IN  IF p >= backing_vec_size(ns)
        THEN [nodes |-> ns, it |-> [i EXCEPT !.at = p], item |-> None]
        ELSE [nodes |-> remove_from_location(ns, p),
              it |-> [at |-> p + 1, num_found |-> i.num_found + 1],
              item |-> Some(<<ns[p].key, ns[p].value>>)]

\* IterOwned::next: [nodes, it, item]
IterOwned_next(ns, i) ==
    LET p == SkipEmpty(ns, i.at)
    IN  IF p >= backing_vec_size(ns)
        THEN [nodes |-> ns, it |-> [i EXCEPT !.at = p], item |-> None]
        ELSE [nodes |-> take_key_value(ns, p),
              it |-> [at |-> p + 1, num_found |-> i.num_found + 1],
              item |-> Some(<<ns[p].key, ns[p].value>>)]

\* IterOwned::size_hint
IterOwned_size_hint(cnt, i) == <<cnt - i.num_found, Some(cnt - i.num_found)>>

\* IterOwned::next()
OwnedNext ==
    /\ phase = "owned"
    /\ LET s == IterOwned_next(nodes, it)
       IN  /\ it' = s.it
           /\ nodes' = s.nodes
           /\ yielded' = IF IsSome(s.item) THEN Append(yielded, Unwrap(s.item)) ELSE yielded
           /\ Ghost(Op("next", NoObj, NoObj), s.item, <<>>, <<>>,
                    IF IsSome(s.item)
                    THEN <<K(Unwrap(s.item)[1]), V(Unwrap(s.item)[2])>> ELSE <<>>,
                    <<>>, 0, 0, NoPanic)
    /\ UNCHANGED <<vram, requested, other, droppable, phase, hasher, count, entry, snap, answers>>

\* the IterOwned goes out of scope, and the map in it
OwnedDrop ==
    /\ phase = "owned"
    /\ phase' = "dropped"
    /\ nodes' = NoNodes
    /\ count' = 0
    /\ answers' = [k \in DOMAIN answers |-> None]
    /\ Ghost(Op("drop", NoObj, NoObj), None, <<>>, Owned(nodes), <<>>, <<>>, 0, 0, NoPanic)
    /\ UNCHANGED <<vram, requested, other, droppable, hasher, entry, it, snap, yielded>>

\* ---------------------------------------------------------------- Entry API
\* Faulty variant of insert_and_get: the new entry is not counted.
insert_and_get_uncounted(ns, cnt, key, value) ==
    LET l == location(ns, key.p, Hash(key.p))
        r == GrowAndInsert(ns, cnt, key, value, Hash(key.p))
    IN  IF IsSome(l)
        THEN [nodes |-> replace_at_location(ns, Unwrap(l), key, value), count |-> cnt,
              loc |-> Unwrap(l), dropped |-> <<K(key), V(ns[Unwrap(l)].value)>>,
              locates |-> 1, resizes |-> 0, panic |-> NoPanic]
        ELSE [nodes |-> r.nodes, count |-> cnt, loc |-> r.loc,
              dropped |-> <<>>, locates |-> 1, resizes |-> r.resizes, panic |-> r.panic]

\* HashMap::insert_and_get(key, value):
\* [nodes, count, loc, dropped, locates, resizes, panic]
insert_and_get(ns, cnt, key, value) ==
    LET hash == Hash(key.p)
        l == location(ns, key.p, hash)
    IN  IF IsSome(l)
        THEN [nodes |-> replace_at_location(ns, Unwrap(l), key, value), count |-> cnt,
              loc |-> Unwrap(l), dropped |-> <<K(key), V(ns[Unwrap(l)].value)>>,
              locates |-> 1, resizes |-> 0, panic |-> NoPanic]
        ELSE LET r == GrowAndInsert(ns, cnt, key, value, hash)
             IN  IF r.panic # NoPanic
                 THEN [nodes |-> ns, count |-> cnt, loc |-> -1,
                       dropped |-> <<K(key), V(value)>>, locates |-> 1,
                       resizes |-> r.resizes, panic |-> r.panic]
                 ELSE IF ~r.nodes[r.loc].has
                 THEN [nodes |-> r.nodes, count |-> cnt + 1, loc |-> r.loc,
                       dropped |-> <<>>, locates |-> 1, resizes |-> r.resizes,
                       panic |-> UnwrapNone]
                 ELSE [nodes |-> r.nodes, count |-> cnt + 1, loc |-> r.loc,
                       dropped |-> <<>>, locates |-> 1, resizes |-> r.resizes,
                       panic |-> NoPanic]

\* HashMap::entry(key)
EntryOf(k) ==
    /\ phase = "map" /\ Idle
    /\ phase' = "entry"
    /\ LET key == NewKey(nodes, k)
           l == location(nodes, k, Hash(k))
       IN  /\ entry' = IF IsSome(l)
                       THEN [kind |-> "Occupied", key |-> key, location |-> Unwrap(l)]
                       ELSE [kind |-> "Vacant", key |-> key, location |-> -1]
           /\ Ghost(Op("entry", key, NoObj), None, <<K(key)>>, <<>>, <<>>, <<>>, 1, 0, NoPanic)
    /\ UNCHANGED <<vram, requested, other, droppable, hasher, nodes, count, it, snap, yielded, answers>>

\* VacantEntry::insert(value), which is also the Vacant arm of or_insert
VacantInsert(name, value) ==
    LET r == insert_and_get(nodes, count, entry.key, value)
    IN  /\ nodes' = r.nodes
        /\ count' = r.count
        /\ answers' = IF r.panic # NoPanic THEN answers
                      ELSE [answers EXCEPT ![entry.key.p] = Some(value)]
        /\ Ghost(Op(name, entry.key, value),
                 IF r.panic # NoPanic THEN None ELSE Some(r.nodes[r.loc].value),
                 <<V(value)>>, r.dropped, <<>>, <<>>, locates + r.locates, r.resizes, r.panic)

\* Faulty variant of or_insert: the value is inserted whatever the entry is.
OrInsertAlways(v) ==
    /\ phase = "entry"
    /\ v \in ValsOf(droppable)
    /\ phase' = "map"
    /\ entry' = NoEntry
    /\ VacantInsert("or_insert", NewValue(nodes, entry.key.p, v))
    /\ UNCHANGED <<vram, requested, other, droppable, hasher, it, snap, yielded>>

\* Entry::or_insert(value)
OrInsert(v) ==
    /\ phase = "entry"
    /\ v \in ValsOf(droppable)
    /\ phase' = "map"
    /\ entry' = NoEntry
    /\ LET value == NewValue(nodes, entry.key.p, v)
       IN  IF entry.kind = "Occupied"
           THEN /\ UNCHANGED <<nodes, count, answers>>
                /\ Ghost(Op("or_insert", entry.key, value), Some(nodes[entry.location].value),
                         <<V(value)>>, <<K(entry.key), V(value)>>, <<>>, <<>>, locates, 0,
                         NoPanic)
           ELSE VacantInsert("or_insert", value)
    /\ UNCHANGED <<vram, requested, other, droppable, hasher, it, snap, yielded>>

\* VacantEntry::insert(value)
EntryInsertVacant(v) ==
    /\ phase = "entry"
    /\ entry.kind = "Vacant"
    /\ v \in ValsOf(droppable)
    /\ phase' = "map"
    /\ entry' = NoEntry
    /\ VacantInsert("vacant_insert", NewValue(nodes, entry.key.p, v))
    /\ UNCHANGED <<vram, requested, other, droppable, hasher, it, snap, yielded>>

\* Node::replace_value
replace_value(ns, loc, value) == [ns EXCEPT ![loc].value = value]

\* Faulty variant of OccupiedEntry::insert: the key is hashed and located
\* again, as HashMap::insert does.
EntryInsertOccupiedRelocating(v) ==
    /\ phase = "entry"
    /\ entry.kind = "Occupied"
    /\ v \in ValsOf(droppable)
    /\ LET value == NewValue(nodes, entry.key.p, v)
           l == Unwrap(location(nodes, entry.key.p, Hash(entry.key.p)))
       IN  /\ nodes' = replace_value(nodes, l, value)
           /\ answers' = [answers EXCEPT ![entry.key.p] = Some(value)]
           /\ Ghost(Op("occupied_insert", entry.key, value), Some(nodes[l].value),
                    <<V(value)>>, <<>>, <<V(nodes[l].value)>>, <<>>,
                    locates + 1, 0, NoPanic)
    /\ UNCHANGED <<vram, requested, other, droppable, phase, hasher, count, entry, it, snap, yielded>>

\* OccupiedEntry::insert(&mut self, value): the entry lives on
EntryInsertOccupied(v) ==
    /\ phase = "entry"
    /\ entry.kind = "Occupied"
    /\ v \in ValsOf(droppable)
    /\ LET value == NewValue(nodes, entry.key.p, v)
       IN  /\ nodes' = replace_value(nodes, entry.location, value)
           /\ answers' = [answers EXCEPT ![entry.key.p] = Some(value)]
           /\ Ghost(Op("occupied_insert", entry.key, value), Some(nodes[entry.location].value),
                    <<V(value)>>, <<>>, <<V(nodes[entry.location].value)>>, <<>>,
                    locates, 0, NoPanic)
    /\ UNCHANGED <<vram, requested, other, droppable, phase, hasher, count, entry, it, snap, yielded>>

\* Faulty variant of OccupiedEntry::remove: the slot is emptied but the run
\* behind it is not shifted.
EntryRemoveTombstone(with_key) ==
    /\ phase = "entry"
    /\ entry.kind = "Occupied"
    /\ phase' = "map"
    /\ entry' = NoEntry
    /\ nodes' = [nodes EXCEPT ![entry.location] = EmptyNode]
    /\ count' = count - 1
    /\ answers' = [answers EXCEPT ![entry.key.p] = None]
    /\ LET old == nodes[entry.location]
       IN  Ghost(Op(IF with_key THEN "remove_entry" ELSE "occupied_remove", entry.key, NoObj),
                 IF with_key THEN Some(<<entry.key, old.value>>) ELSE Some(old.value),
                 <<>>, <<K(old.key)>>, <<V(old.value)>>, <<>>, locates, 0, NoPanic)
    /\ UNCHANGED <<vram, requested, other, droppable, hasher, it, snap, yielded>>

\* OccupiedEntry::remove(self) and, with_key, remove_entry(self)
EntryRemove(with_key) ==
    /\ phase = "entry"
    /\ entry.kind = "Occupied"
    /\ phase' = "map"
    /\ entry' = NoEntry
    /\ nodes' = remove_from_location(nodes, entry.location)
    /\ count' = count - 1
    /\ answers' = [answers EXCEPT ![entry.key.p] = None]
    /\ LET old == nodes[entry.location]
       IN  IF with_key
           THEN Ghost(Op("remove_entry", entry.key, NoObj), Some(<<entry.key, old.value>>),
                      <<>>, <<K(old.key)>>, <<K(entry.key), V(old.value)>>, <<>>,
                      locates, 0, NoPanic)
           ELSE Ghost(Op("occupied_remove", entry.key, NoObj), Some(old.value),
                      <<>>, <<K(old.key), K(entry.key)>>, <<V(old.value)>>, <<>>,
                      locates, 0, NoPanic)
    /\ UNCHANGED <<vram, requested, other, droppable, hasher, it, snap, yielded>>

\* Faulty variant of and_modify: on a Vacant entry f is applied to a value
\* that is then inserted.
AndModifyInserting(v) ==
    /\ phase = "entry"
    /\ v \in ValsOf(droppable)
    /\ LET l == location(nodes, entry.key.p, Hash(entry.key.p))
           new == IF IsSome(l) THEN [nodes[Unwrap(l)].value EXCEPT !.p = v]
                  ELSE NewValue(nodes, entry.key.p, v)
           r == insert_and_get(nodes, count, entry.key, new)
       IN  /\ nodes' = IF IsSome(l) THEN [nodes EXCEPT ![Unwrap(l)].value = new] ELSE r.nodes
           /\ count' = IF IsSome(l) THEN count ELSE r.count
           /\ answers' = [answers EXCEPT ![entry.key.p] = Some(new)]
           /\ entry' = IF IsSome(l) THEN entry
                        ELSE [kind |-> "Occupied", key |-> entry.key, location |-> r.loc]
           /\ Ghost(Op("and_modify", entry.key, new), None, <<>>, <<>>, <<>>,
                    IF IsSome(l) THEN <<<<nodes[Unwrap(l)].key, nodes[Unwrap(l)].value>>>>
                    ELSE <<>>, locates, 0, NoPanic)
    /\ UNCHANGED <<vram, requested, other, droppable, phase, hasher, it, snap, yielded>>

\* Entry::and_modify(f), f setting the value's payload to v
AndModify(v) ==
    /\ phase = "entry"
    /\ v \in ValsOf(droppable)
    /\ IF entry.kind = "Occupied"
       THEN LET old == nodes[entry.location].value
                new == [old EXCEPT !.p = v]
            IN  /\ nodes' = [nodes EXCEPT ![entry.location].value = new]
                /\ answers' = [answers EXCEPT ![entry.key.p] = Some(new)]
                /\ Ghost(Op("and_modify", entry.key, new), None, <<>>, <<>>, <<>>,
                         <<<<nodes[entry.location].key, old>>>>, locates, 0, NoPanic)
       ELSE /\ UNCHANGED <<nodes, answers>>
            /\ Ghost(Op("and_modify", entry.key, NoObj), None, <<>>, <<>>, <<>>, <<>>,
                     locates, 0, NoPanic)
    /\ UNCHANGED <<vram, requested, other, droppable, phase, hasher, count, entry, it, snap, yielded>>

\* the Entry goes out of scope unused
EntryDrop ==
    /\ phase = "entry"
    /\ phase' = "map"
    /\ entry' = NoEntry
    /\ Ghost(Op("entry_drop", entry.key, NoObj), None, <<>>, <<K(entry.key)>>, <<>>, <<>>,
             locates, 0, NoPanic)
    /\ UNCHANGED <<vram, requested, other, droppable, hasher, nodes, count, it, snap, yielded, answers>>

\* ------------------------------------------------------------------ two maps
\* Faulty variant of eq: the lengths are not compared.
eq_no_len(a, a_len, b, b_len) ==
    \A p \in Occupied(a) :
        LET v == get(b, a[p].key.p)
        IN  IsSome(v) /\ a[p].value.p = Unwrap(v).p

\* PartialEq::eq(&self, other): self is (a, a_len), other is (b, b_len)
eq(a, a_len, b, b_len) ==
    IF a_len # b_len THEN FALSE
    ELSE \A p \in Occupied(a) :
            LET v == get(b, a[p].key.p)
            IN  IsSome(v) /\ a[p].value.p = Unwrap(v).p

\* The two maps as [nodes, count, answers], and the one a call is made on.
Self == [nodes |-> nodes, count |-> count, answers |-> answers]
Side(side) == IF side = "self" THEN Self ELSE other
SetSide(side, m) ==
    IF side = "self"
    THEN /\ nodes' = m.nodes
         /\ count' = m.count
         /\ answers' = m.answers
         /\ UNCHANGED other
    ELSE /\ other' = m
         /\ UNCHANGED <<nodes, count, answers>>

\* HashMap::insert(k, v) on one of the two maps, by a caller that does not
\* look at what it returns
InsertInto(side, k, v) ==
    /\ phase = "map" /\ Idle
    /\ other # NoOther
    /\ LET m == Side(side)
           value == NewValue(m.nodes, k, v)
           r == insert(m.nodes, m.count, NewKey(m.nodes, k), value)
       IN  SetSide(side, [nodes |-> r.nodes, count |-> r.count,
                          answers |-> IF r.panic = NoPanic
                                      THEN [m.answers EXCEPT ![k] = Some(value)]
                                      ELSE m.answers])
    /\ UNCHANGED <<vram, requested, droppable, phase, hasher, entry, it, snap, yielded,
                   op, ret, handed, dropped, returned, calls, locates, resizes, panic>>

\* HashMap::remove(&k) on one of the two maps, likewise
RemoveFrom(side, k) ==
    /\ phase = "map" /\ Idle
    /\ other # NoOther
    /\ LET m == Side(side)
           r == remove(m.nodes, m.count, k)
       IN  SetSide(side, [nodes |-> r.nodes, count |-> r.count,
                          answers |-> [m.answers EXCEPT ![k] = None]])
    /\ UNCHANGED <<vram, requested, droppable, phase, hasher, entry, it, snap, yielded,
                   op, ret, handed, dropped, returned, calls, locates, resizes, panic>>

\* map == other, and other == map
Eq(side) ==
    /\ phase = "map" /\ Idle
    /\ other # NoOther
    /\ LET a == Side(side)
           b == Side(IF side = "self" THEN "other" ELSE "self")
       IN  Ghost([name |-> "eq", key |-> NoObj, value |-> NoObj, side |-> side],
                 Some(eq(a.nodes, a.count, b.nodes, b.count)),
                 <<>>, <<>>, <<>>, <<>>, 0, 0, NoPanic)
    /\ UNCHANGED <<vram, requested, other, droppable, phase, hasher, nodes, count, entry, it, snap, yielded,
                   answers>>

\* ---- clone
\* Faulty variant of clone: the clone is handed the storage of the original.
clone_shared(ns, cnt) == [nodes |-> ns, count |-> cnt, alias |-> TRUE]

\* #[derive(Clone)]: NodeStorage::clone, a freshly allocated array of the
\* same size that holds clones of the entries (of plain types: the same
\* payloads); `alias` tells whether the two maps are in the same storage.
clone(ns, cnt) == [nodes |-> ns, count |-> cnt, alias |-> FALSE]

\* HashMap::clone(): the second map is the clone
CloneMap ==
    /\ phase = "map" /\ Idle
    /\ other = NoOther
    /\ \E made \in {clone(nodes, count)} :
          other' = [nodes |-> made.nodes, count |-> made.count, answers |-> answers,
                    alias |-> made.alias]
    /\ Ghost(Op("clone", NoObj, NoObj), None, <<>>, <<>>, <<>>, <<>>, 0, 0, NoPanic)
    /\ UNCHANGED <<vram, requested, droppable, phase, hasher, nodes, count, entry, it, snap, yielded,
                   answers>>

\* A call on the original ("self") or on the clone ("other") has made
\* m = [nodes, count, answers] of the map it was made on.  What is written
\* to a storage is seen by every map that is in it.
SetCloneSide(side, m) ==
    /\ nodes' = IF side = "self" \/ other.alias THEN m.nodes ELSE nodes
    /\ count' = IF side = "self" \/ other.alias THEN m.count ELSE count
    /\ answers' = IF side = "self" THEN m.answers ELSE answers
    /\ other' = [other EXCEPT
                   !.nodes = IF side = "other" \/ other.alias THEN m.nodes ELSE @,
                   !.count = IF side = "other" \/ other.alias THEN m.count ELSE @,
                   !.answers = IF side = "other" THEN m.answers ELSE @]

\* insert, remove, retain and clear on the original or on the clone, by a
\* caller that does not look at what they return
InsertIn(side, k, v) ==
    /\ phase = "map" /\ Idle
    /\ other # NoOther
    /\ LET m == Side(side)
           r == insert(m.nodes, m.count, NewKey(m.nodes, k), NewValue(m.nodes, k, v))
       IN  SetCloneSide(side, [nodes |-> r.nodes, count |-> r.count,
                               answers |-> [m.answers EXCEPT
                                              ![k] = Some(NewValue(m.nodes, k, v))]])
    /\ UNCHANGED <<vram, requested, droppable, phase, hasher, entry, it, snap, yielded,
                   op, ret, handed, dropped, returned, calls, locates, resizes, panic>>

RemoveIn(side, k) ==
    /\ phase = "map" /\ Idle
    /\ other # NoOther
    /\ LET m == Side(side)
           r == remove(m.nodes, m.count, k)
       IN  SetCloneSide(side, [nodes |-> r.nodes, count |-> r.count,
                               answers |-> [m.answers EXCEPT ![k] = None]])
    /\ UNCHANGED <<vram, requested, droppable, phase, hasher, entry, it, snap, yielded,
                   op, ret, handed, dropped, returned, calls, locates, resizes, panic>>

RetainIn(side, f) ==
    /\ phase = "map" /\ Idle
    /\ other # NoOther
    /\ LET m == Side(side)
           r == retain(m.nodes, m.count, f)
       IN  SetCloneSide(side, [nodes |-> r.nodes, count |-> r.count,
                               answers |-> [k \in DOMAIN m.answers |->
                                              IF IsSome(m.answers[k])
                                                 /\ ~Pred(f, Obj(k, 0), Unwrap(m.answers[k]))
                                              THEN None ELSE m.answers[k]]])
    /\ UNCHANGED <<vram, requested, droppable, phase, hasher, entry, it, snap, yielded,
                   op, ret, handed, dropped, returned, calls, locates, resizes, panic>>

ClearIn(side) ==
    /\ phase = "map" /\ Idle
    /\ other # NoOther
    /\ LET m == Side(side)
       IN  SetCloneSide(side, [nodes |-> clear(m.nodes), count |-> 0,
                               answers |-> [k \in DOMAIN m.answers |-> None]])
    /\ UNCHANGED <<vram, requested, droppable, phase, hasher, entry, it, snap, yielded,
                   op, ret, handed, dropped, returned, calls, locates, resizes, panic>>

\* ------------------------------------------------------------ specification
\* A map as it is constructed, for keys of `keys`, with a backing size of
\* `sizes` and key and value types of `modes`.
InitWith(keys, sizes, modes) ==
    /\ droppable \in modes
    /\ phase = "map"
    /\ hasher \in Hashers(keys)
    /\ \E size \in sizes : nodes = with_size_in(size)
    /\ count = 0
    /\ entry = NoEntry
    /\ it = NoIter
    /\ snap = NoNodes
    /\ yielded = <<>>
    /\ answers = [k \in keys |-> None]
    /\ op = IdleOp
    /\ ret = None
    /\ handed = <<>>
    /\ dropped = <<>>
    /\ returned = <<>>
    /\ calls = <<>>
    /\ locates = 0
    /\ resizes = 0
    /\ panic = NoPanic
    /\ NoVram

\* the sizes with_size is called with
Sizes == {Pow2(i) : i \in 0 .. MaxSizeLog}

\* HashMap::new() and HashMap::with_size(2^i), of plain or drop-tracked types
Init == InitWith(Keys, {NewSize} \cup Sizes, BOOLEAN) /\ other = NoOther /\ requested = 0

Next ==
    \/ Continue
    \/ \E k \in Keys, v \in Vals : Insert(k, v)
    \/ \E k \in Keys : Remove(k)
    \/ \E f \in Preds : Retain(f)
    \/ Clear
    \/ DropMap
    \/ IterNew
    \/ IterNext
    \/ IterDrop
    \/ IntoIter
    \/ OwnedNext
    \/ OwnedDrop
    \/ \E k \in Keys : EntryOf(k)
    \/ \E v \in Vals : OrInsert(v)
    \/ \E v \in Vals : EntryInsertVacant(v)
    \/ \E v \in Vals : EntryInsertOccupied(v)
    \/ \E b \in BOOLEAN : EntryRemove(b)
    \/ \E v \in Vals : AndModify(v)
    \/ EntryDrop

Spec == Init /\ [][Next]_vars

\* The maps of test::can_insert_more_than_initial_capacity: HashMap::with_size(2^i)
\* of plain types, inserted into and removed from with one key more.
InitGrow == InitWith(MoreKeys, Sizes, {FALSE}) /\ other = NoOther /\ requested = 0

NextGrow ==
    \/ Continue
    \/ \E k \in MoreKeys, v \in Vals : Insert(k, v)
    \/ \E k \in MoreKeys : Remove(k)
    \/ Clear

SpecGrow == InitGrow /\ [][NextGrow]_vars

\* The table under insert, remove and retain, with the resizes of insert:
\* HashMap::with_size(2^i) of plain types, with one key more.
InitTable == InitWith(MoreKeys, Sizes, {FALSE}) /\ other = NoOther /\ requested = 0

NextTable ==
    \/ Continue
    \/ \E k \in MoreKeys, v \in Vals : Insert(k, v)
    \/ \E k \in MoreKeys : Remove(k)
    \/ \E f \in Preds : Retain(f)

SpecTable == InitTable /\ [][NextTable]_vars

\* Two maps of plain types, each made by new() or with_size(2^i), inserted
\* into and removed from, and compared either way round (so the second is
\* taken to start no smaller than the first).
InitEq ==
    /\ InitWith(EqKeys, {NewSize} \cup Sizes, {FALSE})
    /\ requested = 0
    /\ \E size \in {NewSize} \cup Sizes :
          /\ size >= backing_vec_size(nodes)
          /\ other = [nodes |-> with_size_in(size), count |-> 0,
                      answers |-> [k \in EqKeys |-> None]]

Sides == {"self", "other"}

NextEq ==
    \/ Continue
    \/ \E side \in Sides, k \in EqKeys, v \in Vals : InsertInto(side, k, v)
    \/ \E side \in Sides, k \in EqKeys : RemoveFrom(side, k)
    \/ \E side \in Sides : Eq(side)

SpecEq == InitEq /\ [][NextEq]_vars

\* A map of plain types, made by with_size(1) and filled (it grows with every
\* key), is cloned; then the original and the clone are both inserted into,
\* removed from, retained and cleared.
InitClone == InitWith(EqKeys, {Pow2(0)}, {FALSE}) /\ other = NoOther /\ requested = 0

\* the closures retain is called with, on keys that the two maps can hold
EqPreds == {f \in Preds : f.by = "key" => f.set \subseteq EqKeys}

NextClone ==
    \/ Continue
    \/ \E k \in EqKeys, v \in Vals : other = NoOther /\ Insert(k, v)
    \/ \E k \in EqKeys : other = NoOther /\ Remove(k)
    \/ CloneMap
    \/ \E side \in Sides, k \in EqKeys, v \in Vals : InsertIn(side, k, v)
    \/ \E side \in Sides, k \in EqKeys : RemoveIn(side, k)
    \/ \E side \in Sides, f \in EqPreds : RetainIn(side, f)
    \/ \E side \in Sides : ClearIn(side)

SpecClone == InitClone /\ [][NextClone]_vars

\* A map of plain types that is built up, taken down and looked into.
InitLookup == InitWith(Keys, {NewSize} \cup Sizes, {FALSE}) /\ other = NoOther /\ requested = 0

NextLookup ==
    \/ Continue
    \/ \E k \in Keys, v \in Vals : Insert(k, v)
    \/ \E k \in Keys : Remove(k)
    \/ \E k \in Keys : ContainsKey(k)
    \/ \E k \in Keys : GetKeyValue(k)
    \/ \E k \in Keys : Get(k)
    \/ \E k \in Keys : GetMut(k)
    \/ \E k \in Keys : Index(k)

SpecLookup == InitLookup /\ [][NextLookup]_vars

\* the table sizes with_capacity_in tries: 1 << i for i in 0..32
Attempts == 32

\* `for i in 0..32`, from i on: [nodes, panic]
RECURSIVE with_capacity_from(_, _)
with_capacity_from(cap, i) ==
    IF i >= Attempts THEN [nodes |-> NoNodes, panic |-> CapacityPanic]
    ELSE IF number_before_resize(Pow2(i)) > cap
    THEN [nodes |-> with_size_in(Pow2(i)), panic |-> NoPanic]
    ELSE with_capacity_from(cap, i + 1)

\* Faulty variant of with_capacity_in: the first power of two that is at least
\* the capacity, whatever the load factor.
with_capacity_exact(cap) ==
    LET i == CHOOSE i \in 0 .. Attempts - 1 :
                 Pow2(i) >= cap /\ \A j \in 0 .. i - 1 : Pow2(j) < cap
    IN  [nodes |-> with_size_in(Pow2(i)), panic |-> NoPanic]

\* HashMap::with_capacity_in(capacity): [nodes, panic]
with_capacity_in(cap) == with_capacity_from(cap, 0)

\* HashMap::with_capacity(n) for n up to MaxCap, of plain types
InitCap ==
    /\ requested \in 0 .. MaxCap
    /\ \E made \in {with_capacity_in(requested)} :
          /\ InitWith(Keys, {backing_vec_size(made.nodes)}, {FALSE})
          /\ made.panic = NoPanic
    /\ other = NoOther

NextCap ==
    \/ Continue
    \/ \E k \in Keys, v \in Vals : Insert(k, v)
    \/ \E k \in Keys : Remove(k)

SpecCap == InitCap /\ [][NextCap]_vars

\* ---- usize: with_capacity_in on the machine's integers
\* The builds of the crate: usize of 32 bits (the Game Boy Advance, thumbv4t)
\* or of 64 bits (the host the tests run on), with overflow checks (debug
\* profile) or without them (release profile: the product wraps).
Builds == [bits : {32, 64}, checks : BOOLEAN]
MulOverflow == "attempt to multiply with overflow"

\* A usize is kept as two limbs, hi * Limb + lo: 1 << 31 and the products
\* below are beyond the integers the model checker computes with.
Limb == 65536

\* `1usize << i`
Shl1(i) == IF i < 16 THEN [hi |-> 0, lo |-> Pow2(i)] ELSE [hi |-> Pow2(i - 16), lo |-> 0]

\* const fn number_before_resize, `capacity * 85 / 100`, on the usize of the
\* build: [value, overflow].  The product is hi * Limb + lo before it is cut
\* to the width of usize.
number_before_resize_usize(build, x) ==
    LET low == x.lo * 85
        hi == x.hi * 85 + low \div Limb
        lo == low % Limb
        cut == IF build.bits = 32 THEN hi % Limb ELSE hi
    IN  [value |-> (cut \div 100) * Limb + ((cut % 100) * Limb + lo) \div 100,
         overflow |-> build.bits = 32 /\ hi >= Limb]

\* `for i in 0..32`, from i on, on the usize of the build:
\* [size_log, panic, tried]; the table is of 1 << size_log slots, `tried` are
\* the calls of number_before_resize that were made.
RECURSIVE with_capacity_attempts(_, _, _, _)
with_capacity_attempts(build, cap, i, tried) ==
    IF i >= Attempts THEN [size_log |-> -1, panic |-> CapacityPanic, tried |-> tried]
    ELSE LET n == number_before_resize_usize(build, Shl1(i))
             t == Append(tried, [i |-> i, value |-> n.value, overflow |-> n.overflow])
         IN  IF n.overflow /\ build.checks
             THEN [size_log |-> -1, panic |-> MulOverflow, tried |-> t]
             ELSE IF n.value > cap
             THEN [size_log |-> i, panic |-> NoPanic, tried |-> t]
             ELSE with_capacity_attempts(build, cap, i + 1, t)

\* floor(2^i * 85 / 100), in the integers
Floor85(i) ==
    IF i < 2 THEN (Pow2(i) * 85) \div 100
    ELSE 17 * (Pow2(i - 2) \div 5) + (17 * (Pow2(i - 2) % 5)) \div 5

\* The capacities asked for: the small ones, and for each table size the
\* last capacity it is made for and the first it is too small for.
Capacities ==
    (0 .. MaxCap) \cup {c \in {Floor85(i) - d : i \in 0 .. Attempts - 1, d \in {0, 1}} : c >= 0}

\* HashMap::with_capacity(requested) is about to be called
InitSize ==
    /\ requested \in Capacities
    /\ phase = "unmade"
    /\ droppable = FALSE
    /\ hasher \in Hashers({})
    /\ nodes = NoNodes
    /\ count = 0
    /\ entry = NoEntry
    /\ it = NoIter
    /\ snap = NoNodes
    /\ yielded = <<>>
    /\ answers = <<>>
    /\ other = NoOther
    /\ op = IdleOp
    /\ ret = None
    /\ handed = <<>>
    /\ dropped = <<>>
    /\ returned = <<>>
    /\ calls = <<>>
    /\ locates = 0
    /\ resizes = 0
    /\ panic = NoPanic
    /\ NoVram

\* HashMap::with_capacity(requested) on a build: the size it settles on (the
\* storage of 1 << size_log slots is not laid out here), or its panic
WithCapacity(build) ==
    /\ phase = "unmade"
    /\ phase' = "made"
    /\ \E r \in {with_capacity_attempts(build, requested, 0, <<>>)} :
          Ghost([name |-> "with_capacity", key |-> NoObj, value |-> NoObj, build |-> build],
                IF r.panic = NoPanic THEN Some(r.size_log) ELSE None,
                <<>>, <<>>, <<>>, r.tried, 0, 0, r.panic)
    /\ UNCHANGED <<vram, requested, other, droppable, hasher, nodes, count, entry, it, snap,
                   yielded, answers>>

NextSize == \E build \in Builds : WithCapacity(build)

SpecSize == InitSize /\ [][NextSize]_vars

\* ----------------------------------------------- VRamManager (vram_manager.rs)
\* the tile sets an arena holds, the tiles of a tile set, the generations
\* add_tileset counts through, the VRAM slots and the references to one tile
MaxTileSets == 2
MaxTiles == 2
MaxGeneration == 2
MaxVram == 2
MaxCount == 2

\* u16
U16 == 65536
\* const END_OF_FREE_LIST_MARKER: u16 = u16::MAX
END_OF_FREE_LIST_MARKER == U16 - 1

\* Vec<T>, indexed from 0: len, push, resize
VecLen(v) == Cardinality(DOMAIN v)
Push(v, x) == [i \in 0 .. VecLen(v) |-> IF i < VecLen(v) THEN v[i] ELSE x]
Resize(v, n, x) == [i \in 0 .. n - 1 |-> IF i \in DOMAIN v THEN v[i] ELSE x]

\* TileSetReference::new
TileSetReference(id, generation) == [id |-> id, generation |-> generation]
\* struct TileReference(u16, u16)
TileReference(id, tile) == <<id, tile>>
\* the Default of a tile_set_to_vram entry: (0, 0), no VRAM slot
Default == <<0, 0>>

\* enum VRamState
ReferenceCounted(n, tile_ref) ==
    [kind |-> "ReferenceCounted", count |-> n, tile_ref |-> tile_ref, next |-> 0]
Free(next) == [kind |-> "Free", count |-> 0, tile_ref |-> <<0, 0>>, next |-> next]

\* enum ArenaStorageItem; Data holds a TileSet, of which num_tiles() is kept
EndOfFreeList == [kind |-> "EndOfFreeList", next |-> 0, num_tiles |-> 0, generation |-> 0]
NextFree(next) == [kind |-> "NextFree", next |-> next, num_tiles |-> 0, generation |-> 0]
Data(num_tiles, generation) ==
    [kind |-> "Data", next |-> 0, num_tiles |-> num_tiles, generation |-> generation]

\* the panics of vram_manager.rs
MustRemoveValid == "Must remove valid tileset"
GenerationAssert == "Tileset generation must be the same when removing"
NotCleared == "Tileset unloaded but not cleared from vram"
StaleTileData == "Stale tile data requested"
MustPointToExisting == "Tile set ref must point to existing tile set"
IndexOutOfBounds == "index out of bounds"
\* debug_unreachable_unchecked: unreachable!() with debug assertions,
\* unreachable_unchecked() without: undefined behaviour
Undefined == "undefined behaviour"
debug_unreachable_unchecked(message, debug) == IF debug THEN message ELSE Undefined

\* VRamManager::new
VRamManager_new ==
    [tilesets |-> <<>>, generation |-> 0, free_pointer |-> None,
     tile_set_to_vram |-> <<>>, references |-> (0 :> Free(0)),
     vram_free_pointer |-> None]

\* VRamManager::add_tileset(tileset), tileset.num_tiles() = num_tiles:
\* [m, ret, panic]
add_tileset(m, num_tiles, debug) ==
    LET generation == m.generation
        m0 == [m EXCEPT !.generation = (m.generation + 1) % U16]
        tileset == Data(num_tiles, generation)
        placed ==
            IF IsSome(m0.free_pointer)
            THEN LET ptr == Unwrap(m0.free_pointer)
                     m1 == [m0 EXCEPT !.free_pointer = None]
                 IN  IF m1.tilesets[ptr].kind = "EndOfFreeList"
                     THEN [m |-> [m1 EXCEPT !.tilesets[ptr] = tileset],
                           index |-> ptr, panic |-> NoPanic]
                     ELSE IF m1.tilesets[ptr].kind = "NextFree"
                     THEN [m |-> [m1 EXCEPT !.free_pointer = Some(m1.tilesets[ptr].next),
                                            !.tilesets[ptr] = tileset],
                           index |-> ptr, panic |-> NoPanic]
                     ELSE [m |-> m1, index |-> ptr,
                           panic |-> debug_unreachable_unchecked(
                                         "Free pointer cannot point to data", debug)]
            ELSE [m |-> [m0 EXCEPT !.tilesets = Push(@, tileset)],
                  index |-> VecLen(m0.tilesets), panic |-> NoPanic]
    IN  IF placed.panic # NoPanic
        THEN [m |-> placed.m, ret |-> None, panic |-> placed.panic]
        ELSE [m |-> [placed.m EXCEPT !.tile_set_to_vram =
                        [Resize(@, VecLen(placed.m.tilesets), <<>>) EXCEPT
                            ![placed.index] = [t \in 0 .. num_tiles - 1 |-> Default]]],
              ret |-> Some(TileSetReference(placed.index % U16, generation)),
              panic |-> NoPanic]

\* VRamManager::remove_tileset(tile_set_ref): [m, panic]
remove_tileset(m, tile_set_ref, debug) ==
    LET tileset == m.tilesets[tile_set_ref.id]
    IN  IF tileset.kind = "Data"
        THEN IF debug /\ tileset.generation # tile_set_ref.generation
             THEN [m |-> m, panic |-> GenerationAssert]
             ELSE [m |-> [m EXCEPT !.tilesets[tile_set_ref.id] =
                                       IF IsSome(m.free_pointer)
                                       THEN NextFree(Unwrap(m.free_pointer))
                                       ELSE EndOfFreeList,
                                   !.free_pointer = Some(tile_set_ref.id)],
                   panic |-> NoPanic]
        ELSE [m |-> m, panic |-> MustRemoveValid]

\* VRamState::increase_reference on references[i]: [m, panic]
increase_reference(m, i, debug) ==
    IF m.references[i].kind = "ReferenceCounted"
    THEN [m |-> [m EXCEPT !.references[i].count = @ + 1], panic |-> NoPanic]
    ELSE [m |-> m, panic |-> debug_unreachable_unchecked(
                                 "Cannot increase reference count of free item", debug)]

\* VRamState::decrease_reference on references[i]: [m, ret, panic]
decrease_reference(m, i, debug) ==
    IF m.references[i].kind = "ReferenceCounted"
    THEN [m |-> [m EXCEPT !.references[i].count = @ - 1],
          ret |-> <<m.references[i].count - 1, m.references[i].tile_ref>>,
          panic |-> NoPanic]
    ELSE [m |-> m, ret |-> <<0, <<0, 0>>>>,
          panic |-> debug_unreachable_unchecked(
                        "Cannot decrease reference count of free item", debug)]

\* add_tile, lines 203-221: the VRAM slot to copy into, [m, index, panic]
index_to_copy_into(m, tile_ref, debug) ==
    IF IsSome(m.vram_free_pointer)
    THEN LET ptr == Unwrap(m.vram_free_pointer)
             m1 == [m EXCEPT !.vram_free_pointer = None]
         IN  IF m1.references[ptr].kind = "Free"
             THEN [m |-> [m1 EXCEPT !.vram_free_pointer =
                                        IF m1.references[ptr].next # END_OF_FREE_LIST_MARKER
                                        THEN Some(m1.references[ptr].next) ELSE None,
                                    !.references[ptr] = ReferenceCounted(1, tile_ref)],
                   index |-> ptr, panic |-> NoPanic]
             ELSE [m |-> m1, index |-> ptr,
                   panic |-> debug_unreachable_unchecked(
                                 "Free pointer must point to free item", debug)]
    ELSE [m |-> [m EXCEPT !.references = Push(@, ReferenceCounted(1, tile_ref))],
          index |-> VecLen(m.references), panic |-> NoPanic]

\* VRamManager::add_tile(tile_set_ref, tile): [m, ret, panic]
add_tile(m, tile_set_ref, tile, debug) ==
    LET tile_ref == TileReference(tile_set_ref.id, tile)
        id == tile_set_ref.id
    IN  IF tile \notin DOMAIN m.tile_set_to_vram[id]
        THEN [m |-> m, ret |-> None, panic |-> IndexOutOfBounds]
        ELSE
        LET reference == m.tile_set_to_vram[id][tile]
        IN  IF reference # Default
            THEN IF reference[2] = tile_set_ref.generation
                 THEN LET r == increase_reference(m, reference[1], debug)
                      IN  [m |-> r.m,
                           ret |-> IF r.panic = NoPanic THEN Some(reference[1]) ELSE None,
                           panic |-> r.panic]
                 ELSE [m |-> m, ret |-> None, panic |-> NotCleared]
            ELSE
            LET a == index_to_copy_into(m, tile_ref, debug)
            IN  IF a.panic # NoPanic THEN [m |-> a.m, ret |-> None, panic |-> a.panic]
                ELSE IF a.m.tilesets[id].kind # "Data"
                THEN [m |-> a.m, ret |-> None, panic |-> MustPointToExisting]
                ELSE IF debug /\ a.m.tilesets[id].generation # tile_set_ref.generation
                THEN [m |-> a.m, ret |-> None, panic |-> StaleTileData]
                ELSE [m |-> [a.m EXCEPT !.tile_set_to_vram[id][tile] =
                                            <<a.index % U16, tile_set_ref.generation>>],
                      ret |-> Some(a.index % U16), panic |-> NoPanic]

\* VRamManager::remove_tile(tile_index): [m, panic]
remove_tile(m, tile_index, debug) ==
    LET d == decrease_reference(m, tile_index, debug)
        new_count == d.ret[1]
        tile_ref == d.ret[2]
    IN  IF d.panic # NoPanic THEN [m |-> d.m, panic |-> d.panic]
        ELSE IF new_count # 0 THEN [m |-> d.m, panic |-> NoPanic]
        ELSE
        LET m1 == [d.m EXCEPT !.references[tile_index] =
                                  IF IsSome(d.m.vram_free_pointer)
                                  THEN Free(Unwrap(d.m.vram_free_pointer) % U16)
                                  ELSE Free(END_OF_FREE_LIST_MARKER)]
        IN  IF \/ tile_ref[1] \notin DOMAIN m1.tile_set_to_vram
               \/ tile_ref[2] \notin DOMAIN m1.tile_set_to_vram[tile_ref[1]]
            THEN [m |-> m1, panic |-> IndexOutOfBounds]
            ELSE [m |-> [m1 EXCEPT !.tile_set_to_vram[tile_ref[1]][tile_ref[2]] = Default,
                                   !.vram_free_pointer = Some(tile_index)],
                  panic |-> NoPanic]

\* the tile set a reference was returned for is in the arena
Live(m, tile_set_ref) ==
    /\ m.tilesets[tile_set_ref.id].kind = "Data"
    /\ m.tilesets[tile_set_ref.id].generation = tile_set_ref.generation

\* the caller's TileIndex values with one more, or one less, of index i
\* returned by add_tile(tile_set_ref, tile)
Taking(hs, i, tile_set_ref, tile) ==
    IF \E h \in hs : h.index = i /\ h.ref = tile_set_ref /\ h.tile = tile
    THEN {IF h.index = i /\ h.ref = tile_set_ref /\ h.tile = tile
          THEN [h EXCEPT !.n = @ + 1] ELSE h : h \in hs}
    ELSE hs \cup {[index |-> i, ref |-> tile_set_ref, tile |-> tile, n |-> 1]}
Giving(hs, h) == IF h.n = 1 THEN hs \ {h} ELSE (hs \ {h}) \cup {[h EXCEPT !.n = @ - 1]}

\* what a call of the VRamManager leaves behind; a panic ends the program
VRamDone(o, r, pn) ==
    /\ Ghost(o, r, <<>>, <<>>, <<>>, <<>>, 0, 0, pn)
    /\ phase' = IF pn = NoPanic THEN "vram" ELSE "panicked"
    /\ UNCHANGED <<requested, other, droppable, hasher, nodes, count, entry, it, snap,
                   yielded, answers, debug_assertions>>

\* VRamManager::add_tileset(TileSet of num_tiles tiles)
AddTileset(num_tiles) ==
    /\ phase = "vram"
    /\ IsSome(manager.free_pointer) \/ VecLen(manager.tilesets) < MaxTileSets
    /\ \E r \in {add_tileset(manager, num_tiles, debug_assertions)} :
          /\ manager' = r.m
          /\ given' = IF IsSome(r.ret)
                      THEN given \cup {[ref |-> Unwrap(r.ret), num_tiles |-> num_tiles]}
                      ELSE given
          /\ VRamDone([name |-> "add_tileset", num_tiles |-> num_tiles], r.ret, r.panic)
    /\ UNCHANGED in_use

\* VRamManager::remove_tileset(g.ref); the caller keeps its references, Copy
\* values, but for those it forgets
RemoveTileset(g, forgotten) ==
    /\ phase = "vram"
    /\ g \in given
    /\ \E r \in {remove_tileset(manager, g.ref, debug_assertions)} :
          /\ manager' = r.m
          /\ given' = given \ forgotten
          /\ VRamDone([name |-> "remove_tileset", ref |-> g.ref], None, r.panic)
    /\ UNCHANGED in_use

\* VRamManager::add_tile(g.ref, tile), tile a tile of the tile set g.ref was
\* returned for
AddTile(g, tile) ==
    /\ phase = "vram"
    /\ g \in given
    /\ tile \in 0 .. g.num_tiles - 1
    /\ \E r \in {add_tile(manager, g.ref, tile, debug_assertions)} :
          /\ VecLen(r.m.references) <= MaxVram + 1
          /\ \A i \in DOMAIN r.m.references : r.m.references[i].count <= MaxCount
          /\ manager' = r.m
          /\ in_use' = IF IsSome(r.ret) THEN Taking(in_use, Unwrap(r.ret), g.ref, tile)
                       ELSE in_use
          /\ VRamDone([name |-> "add_tile", ref |-> g.ref, tile |-> tile], r.ret, r.panic)
    /\ UNCHANGED given

\* VRamManager::remove_tile(TileIndex): the caller gives one of its values
RemoveTile(h) ==
    /\ phase = "vram"
    /\ h \in in_use
    /\ \E r \in {remove_tile(manager, h.index, debug_assertions)} :
          /\ manager' = r.m
          /\ in_use' = Giving(in_use, h)
          /\ VRamDone([name |-> "remove_tile", index |-> h.index, ref |-> h.ref,
                       tile |-> h.tile], None, r.panic)
    /\ UNCHANGED given

\* A VRamManager as new() makes it, in a build with or without debug
\* assertions; no map.
InitVram ==
    /\ requested = 0
    /\ phase = "vram"
    /\ droppable = FALSE
    /\ hasher \in Hashers({})
    /\ nodes = NoNodes
    /\ count = 0
    /\ entry = NoEntry
    /\ it = NoIter
    /\ snap = NoNodes
    /\ yielded = <<>>
    /\ answers = <<>>
    /\ other = NoOther
    /\ op = IdleOp
    /\ ret = None
    /\ handed = <<>>
    /\ dropped = <<>>
    /\ returned = <<>>
    /\ calls = <<>>
    /\ locates = 0
    /\ resizes = 0
    /\ panic = NoPanic
    /\ manager = VRamManager_new
    /\ debug_assertions \in BOOLEAN
    /\ given = {}
    /\ in_use = {}

\* the calls of a caller that keeps every reference
NextVram ==
    \/ manager.generation < MaxGeneration /\ \E n \in 1 .. MaxTiles : AddTileset(n)
    \/ \E g \in given : RemoveTileset(g, {})
    \/ \E g \in given, tile \in 0 .. MaxTiles - 1 : AddTile(g, tile)
    \/ \E h \in in_use : RemoveTile(h)

SpecVram == InitVram /\ [][NextVram]_vars

\* the calls of a caller that uses no stale reference, and removes a tile set
\* only when it has given back every TileIndex of its tiles
NextOrderly ==
    \/ manager.generation < MaxGeneration /\ \E n \in 1 .. MaxTiles : AddTileset(n)
    \/ \E g \in given :
          /\ Live(manager, g.ref)
          /\ \A h \in in_use : h.ref # g.ref
          /\ RemoveTileset(g, {})
    \/ \E g \in given, tile \in 0 .. MaxTiles - 1 : Live(manager, g.ref) /\ AddTile(g, tile)
    \/ \E h \in in_use : RemoveTile(h)

SpecOrderly == InitVram /\ [][NextOrderly]_vars

\* the references a caller of add_tileset and remove_tileset remembers for good
MaxStale == 1

\* Tile sets added and removed for as long as the program runs, one in the
\* arena at a time, by a caller that remembers the references of its first
\* MaxStale calls of add_tileset and no other reference after a remove_tileset.
NextGeneration ==
    \/ (\A id \in DOMAIN manager.tilesets : manager.tilesets[id].kind # "Data") /\ AddTileset(1)
    \/ \E g \in given : RemoveTileset(g, {s \in given : s.ref.generation >= MaxStale})

SpecGeneration == InitVram /\ [][NextGeneration]_vars

\* -------------------------------------------------------------- properties
\* C1: after every call, get(k) of every key k is what the reference
\* associative map answers: the value of the latest insert of k that no
\* remove of k followed, else None.
C1_GetMatchesReference ==
    phase \in {"map", "iter", "entry"} => \A k \in DOMAIN answers : get(nodes, k) = answers[k]

\* a remove on a map made by new() took one key out and two are left behind
C1_Witness ==
    /\ backing_vec_size(nodes) = NewSize
    /\ op.name = "remove" /\ IsSome(ret)
    /\ Cardinality({k \in DOMAIN answers : IsSome(answers[k])}) >= 2

\* C2: remove(k) of a key the map contains returns Some of the value stored
\* for k; afterwards get(k) is None, len() is one less and every other key
\* maps to what it mapped to before.
C2_RemovePresent ==
    [][(op'.name = "remove" /\ contains_key(nodes, op'.key.p)) =>
          /\ IsSome(ret') /\ ret' = get(nodes, op'.key.p)
          /\ get(nodes', op'.key.p) = None
          /\ count' = count - 1
          /\ \A j \in DOMAIN answers \ {op'.key.p} : get(nodes', j) = get(nodes, j)]_vars

\* a key was removed from in front of other entries of its probe run
C2_Witness ==
    /\ op.name = "remove" /\ IsSome(ret)
    /\ count >= 2
    /\ \A p \in Occupied(nodes) : nodes[p].hash = Hash(op.key.p)

\* C3: remove(k) of a key that is not in the map returns None and leaves
\* len(), capacity() and every slot (position, key, value, dib) as it was.
C3_RemoveAbsent ==
    [][(op'.name = "remove" /\ ~contains_key(nodes, op'.key.p)) =>
          /\ ret' = None
          /\ nodes' = nodes
          /\ count' = count
          /\ capacity(nodes') = capacity(nodes)]_vars

\* an absent key was removed whose ideal bucket holds another key
C3_Witness ==
    /\ op.name = "remove" /\ ret = None
    /\ nodes[Hash(op.key.p) % backing_vec_size(nodes)].has

\* C4: insert(k, v2) on a map that stores k with v1 returns Some(v1), leaves
\* len() and capacity() as they were, makes no resize, and get(k) is Some(v2)
\* afterwards; insert of a key not in the map returns None and len() grows by
\* exactly one.
C4_InsertContract ==
    [][op'.name = "insert" =>
          IF contains_key(nodes, op'.key.p)
          THEN /\ IsSome(ret') /\ ret' = get(nodes, op'.key.p)
               /\ count' = count
               /\ capacity(nodes') = capacity(nodes)
               /\ backing_vec_size(nodes') = backing_vec_size(nodes)
               /\ resizes' = 0
               /\ get(nodes', op'.key.p) = Some(op'.value)
          ELSE /\ ret' = None
               /\ count' = count + 1]_vars

\* a value was overwritten by a different one in a map filled to its threshold
C4_Witness ==
    /\ op.name = "insert" /\ IsSome(ret) /\ ret # Some(op.value)
    /\ capacity(nodes) <= count
    /\ count >= 1

\* C5: when insert is called with a key equal to a stored key, the key object
\* in the table afterwards is the one that was stored, and the call drops the
\* incoming key object and nothing else.
C5_OverwriteKeepsKey ==
    [][(op'.name = "insert" /\ contains_key(nodes, op'.key.p)) =>
          /\ contains_key(nodes', op'.key.p)
          /\ Unwrap(get_key_value(nodes', op'.key.p))[1] =
                 Unwrap(get_key_value(nodes, op'.key.p))[1]
          /\ dropped' = <<K(op'.key)>>]_vars

\* a drop-tracked key was inserted over an equal key that is another object
C5_Witness ==
    /\ droppable
    /\ op.name = "insert" /\ IsSome(ret)
    /\ contains_key(nodes, op.key.p)
    /\ Unwrap(get_key_value(nodes, op.key.p))[1].id # op.key.id
    /\ dropped = <<K(op.key)>>

\* The objects in the hands of the map are those in the occupied slots `occ`
\* of the storage and the key an Entry carries.  An object is known by its
\* kind and identity.
Ident(x) == <<x[1], x[2].id>>
Idents(s) == {Ident(s[i]) : i \in DOMAIN s}
OfKind(s, kind) == Cardinality({i \in DOMAIN s : s[i][1] = kind})
EntryKeys(ph, e) == IF ph = "entry" THEN {<<"key", e.key.id>>} ELSE {}
HeldIdents(ns, occ, ph, e) ==
    {<<"key", ns[p].key.id>> : p \in occ} \cup {<<"value", ns[p].value.id>> : p \in occ}
    \cup EntryKeys(ph, e)

\* C6: every key and value object handed to the map is dropped once or given
\* back to the caller once, never neither and never twice.  Each step, the keys
\* (values) the map holds afterwards and those the step dropped or gave back
\* are as many as the map held before and was handed; for drop-tracked types
\* they are the same objects, none held twice, none dropped or given back
\* twice or while still held; once the map is dropped it holds nothing.
C6_DropExactness ==
    [][\A occ \in {Occupied(nodes)}, occ1 \in {Occupied(nodes')}, out \in {dropped' \o returned'} :
          /\ Cardinality(occ1) + Cardinality(EntryKeys(phase', entry')) + OfKind(out, "key")
                = Cardinality(occ) + Cardinality(EntryKeys(phase, entry)) + OfKind(handed', "key")
          /\ Cardinality(occ1) + OfKind(out, "value")
                = Cardinality(occ) + OfKind(handed', "value")
          /\ droppable =>
                \A held \in {HeldIdents(nodes, occ, phase, entry)},
                   held1 \in {HeldIdents(nodes', occ1, phase', entry')} :
                   /\ held1 \cup Idents(out) = held \cup Idents(handed')
                   /\ Cardinality(held1) = 2 * Cardinality(occ1)
                                             + Cardinality(EntryKeys(phase', entry'))
                   /\ Cardinality(Idents(out)) = Len(out)
                   /\ held1 \cap Idents(out) = {}
          /\ phase' = "dropped" => occ1 = {}]_vars

\* the final drop of a drop-tracked map that still holds two entries
C6_Witness ==
    /\ droppable
    /\ phase = "dropped"
    /\ Len(dropped) >= 4
    /\ Cardinality(Idents(dropped)) = Len(dropped)

\* C7: inserting distinct keys into a table made by with_size(s) never loses
\* an entry, however many resizes happen: the insert of a key that is not in
\* the map returns normally, afterwards get gives the inserted value for it
\* and the same value as before for every other key, and len() is the number
\* of keys in the map.
C7_NoEntryLost ==
    [][(op'.name = "insert" /\ ~contains_key(nodes, op'.key.p)) =>
          /\ panic' = NoPanic
          /\ get(nodes', op'.key.p) = Some(op'.value)
          /\ \A j \in DOMAIN answers \ {op'.key.p} : get(nodes', j) = get(nodes, j)
          /\ count' = count + 1
          /\ count' = Cardinality({j \in DOMAIN answers : contains_key(nodes', j)})]_vars

\* the insert of a fourth key grew a table of size 4 and all four are found
C7_Witness ==
    /\ op.name = "insert" /\ resizes = 1
    /\ count >= 4
    /\ Cardinality({j \in DOMAIN answers : IsSome(get(nodes, j))}) = count

\* C8: capacity() never decreases, and resize is never called with a size
\* smaller than the backing size: its assertion never fires.
C8_CapacityNeverDecreases ==
    [][/\ phase' # "dropped" =>
             /\ capacity(nodes') >= capacity(nodes)
             /\ backing_vec_size(nodes') >= backing_vec_size(nodes)
       /\ panic' # ResizeAssert]_vars

\* an Entry's insert has grown the table, carrying an entry over
C8_Witness ==
    /\ op.name \in {"or_insert", "vacant_insert"}
    /\ resizes = 1
    /\ panic = NoPanic
    /\ count >= 2

\* what Iter::next would yield from here to the end
RECURSIVE Iter_rest(_, _)
Iter_rest(ns, i) ==
    LET s == Iter_next(ns, i)
    IN  IF IsSome(s.item) THEN <<Unwrap(s.item)>> \o Iter_rest(ns, s.it) ELSE <<>>

\* the keys, and the (key, value) pairs, of a storage
KeysIn(ns) == {ns[p].key : p \in Occupied(ns)}
FirstOf(s) == {s[i][1] : i \in DOMAIN s}

\* C9: whatever number of items the borrowing iterator has yielded,
\* size_hint() is (r, Some(r)) with r the number of items it will still
\* yield, which is len() minus the items yielded; what it has yielded and will
\* yield is each key of the table as it was when the iteration started, once.
C9_IterExact ==
    phase = "iter" =>
        \A rest \in {Iter_rest(nodes, it)} :
            /\ Iter_size_hint(len, it) = <<Len(rest), Some(Len(rest))>>
            /\ Len(rest) = len - Len(yielded)
            /\ FirstOf(yielded \o rest) = KeysIn(snap)
            /\ Cardinality(KeysIn(snap)) = Len(yielded) + Len(rest)

\* the iterator has run to the end of a table of two or more entries with
\* Empty slots between them
C9_Witness ==
    /\ phase = "iter"
    /\ op.name = "next" /\ ret = None
    /\ Len(yielded) >= 2
    /\ \E p, q \in Occupied(nodes) : p + 1 < q /\ ~nodes[p + 1].has

\* what IterOwned::next would yield from here to the end
RECURSIVE IterOwned_rest(_, _)
IterOwned_rest(ns, i) ==
    LET s == IterOwned_next(ns, i)
    IN  IF IsSome(s.item) THEN <<Unwrap(s.item)>> \o IterOwned_rest(s.nodes, s.it) ELSE <<>>

\* the (key, value) pairs of a storage in increasing slot order
RECURSIVE PairsFrom(_, _)
PairsFrom(ns, p) ==
    IF p \notin DOMAIN ns THEN <<>>
    ELSE IF ns[p].has THEN <<<<ns[p].key, ns[p].value>>>> \o PairsFrom(ns, p + 1)
    ELSE PairsFrom(ns, p + 1)

\* C10: what the owning iterator has yielded and will yield is every
\* (key, value) pair of the consumed map, once, in increasing slot order; and
\* size_hint() is (r, Some(r)) with r the number of pairs it will still yield.
C10_IterOwnedExact ==
    phase = "owned" =>
        \A rest \in {IterOwned_rest(nodes, it)} :
            /\ yielded \o rest = PairsFrom(snap, 0)
            /\ IterOwned_size_hint(len, it) = <<Len(rest), Some(Len(rest))>>

\* the owning iterator has yielded two pairs of a probe run that wraps round
\* the end of the array, and at least one more is to come
C10_Witness ==
    /\ phase = "owned"
    /\ op.name = "next" /\ IsSome(ret)
    /\ Len(yielded) = 2
    /\ count >= 3
    /\ \E p \in Occupied(snap) : snap[p].dib > p

\* the (key, value) pairs of a map
PairsOf(ns) == {<<ns[p].key.p, ns[p].value.p>> : p \in Occupied(ns)}

\* C11: a == b holds exactly when a and b contain the same set of (key, value)
\* pairs, whatever the order of the inserts, the removes before and the two
\* backing sizes; it is false when the lengths differ; and a == b is b == a.
C11_EqIsSamePairs ==
    other # NoOther =>
        \A a \in {Self}, b \in {other} :
            \A e \in {eq(a.nodes, a.count, b.nodes, b.count)} :
                /\ e = (PairsOf(a.nodes) = PairsOf(b.nodes))
                /\ e = eq(b.nodes, b.count, a.nodes, a.count)
                /\ a.count # b.count => ~e
                /\ op.name = "eq" => ret = Some(e)

\* two maps of different backing sizes that hold the same two pairs, a key at
\* different probe distances in the two, compared equal
C11_Witness ==
    /\ op.name = "eq" /\ ret = Some(TRUE)
    /\ count = 2
    /\ backing_vec_size(nodes) # backing_vec_size(other.nodes)
    /\ \E p \in Occupied(nodes), q \in Occupied(other.nodes) :
          /\ nodes[p].key = other.nodes[q].key
          /\ nodes[p].dib # other.nodes[q].dib

\* C12: entry(k) is Occupied exactly when k is in the map, Vacant otherwise;
\* or_insert(x) on Occupied leaves the stored value and len() as they are and
\* returns the value that is stored, not x; or_insert(x) on Vacant inserts
\* (k, x): len() grows by one and get(k) is Some(x) afterwards.
C12_EntryOrInsert ==
    [][/\ op'.name = "entry" =>
             /\ entry'.kind = (IF contains_key(nodes, op'.key.p) THEN "Occupied" ELSE "Vacant")
             /\ entry'.key = op'.key
             /\ nodes' = nodes /\ count' = count
       /\ op'.name = "or_insert" =>
             IF contains_key(nodes, entry.key.p)
             THEN /\ nodes' = nodes
                  /\ count' = count
                  /\ ret' = get(nodes, entry.key.p)
             ELSE /\ count' = count + 1
                  /\ get(nodes', entry.key.p) = Some(op'.value)
                  /\ ret' = Some(op'.value)]_vars

\* or_insert on an Occupied entry gave back a stored value that is not the
\* value it was called with
C12_Witness ==
    /\ op.name = "or_insert"
    /\ IsSome(ret) /\ ret # Some(op.value)
    /\ ret = get(nodes, op.key.p)

\* C13: on an Occupied entry for k, insert(v) returns the value stored before,
\* makes get(k) Some(v) and leaves len() as it is; remove() returns the stored
\* value, makes get(k) None, takes one off len() and leaves every other key
\* with its value.
C13_OccupiedInsertRemove ==
    [][/\ op'.name = "occupied_insert" =>
             /\ ret' = get(nodes, entry.key.p) /\ IsSome(ret')
             /\ get(nodes', entry.key.p) = Some(op'.value)
             /\ count' = count
       /\ op'.name \in {"occupied_remove", "remove_entry"} =>
             /\ IsSome(get(nodes, entry.key.p))
             /\ ret' = (IF op'.name = "remove_entry"
                        THEN Some(<<entry.key, Unwrap(get(nodes, entry.key.p))>>)
                        ELSE get(nodes, entry.key.p))
             /\ get(nodes', entry.key.p) = None
             /\ count' = count - 1
             /\ \A j \in DOMAIN answers \ {entry.key.p} :
                   get(nodes', j) = get(nodes, j)]_vars

\* an Occupied entry's remove took a key out from in front of two others of
\* its probe run
C13_Witness ==
    /\ op.name = "occupied_remove" /\ IsSome(ret)
    /\ count >= 2
    /\ \A p \in Occupied(nodes) : nodes[p].hash = Hash(op.key.p) /\ nodes[p].dib <= 1

\* the operations on an Entry
EntryOps ==
    {"or_insert", "vacant_insert", "occupied_insert", "occupied_remove", "remove_entry",
     "and_modify", "entry_drop"}

C15_AndModify ==
    [][op'.name = "and_modify" =>
          /\ phase' = "entry" /\ entry' = entry
          /\ count' = count
          /\ IF entry.kind = "Occupied"
             THEN /\ calls' = <<<<nodes[entry.location].key, nodes[entry.location].value>>>>
                  /\ nodes' = [nodes EXCEPT ![entry.location].value = op'.value]
                  /\ op'.value.id = nodes[entry.location].value.id
             ELSE /\ calls' = <<>>
                  /\ nodes' = nodes]_vars

\* and_modify has changed the value stored under an Occupied entry
C15_Witness ==
    /\ op.name = "and_modify"
    /\ entry.kind = "Occupied"
    /\ Len(calls) = 1
    /\ nodes[entry.location].value # calls[1][2]
    /\ nodes[entry.location].value = op.value

\* C16: retain(f) with a pure f keeps exactly the entries on which f is true,
\* each with the value it had, and removes all the others; len is then the
\* number of entries kept.
C16_RetainExact ==
    [][op'.name = "retain" =>
          /\ \A k \in Keys :
                get(nodes', k) =
                  (IF contains_key(nodes, k)
                      /\ Pred(op'.f, Obj(k, 0), Unwrap(get(nodes, k)))
                   THEN get(nodes, k) ELSE None)
          /\ count' = Cardinality({k \in Keys : /\ contains_key(nodes, k)
                                                /\ Pred(op'.f, Obj(k, 0),
                                                        Unwrap(get(nodes, k)))})
          /\ count' = Cardinality(Occupied(nodes'))]_vars

\* retain has removed entries and kept entries
C16_Witness ==
    /\ op.name = "retain"
    /\ count >= 1
    /\ Len(dropped) >= 2
    /\ Len(calls) >= 3

\* C17: clear() leaves len 0 and every key absent, keeps the backing size
\* and the capacity, and drops every key and value that was stored, once
\* (values without identity: as many drops of a value as slots that held it).
C17_Clear ==
    [][op'.name = "clear" =>
          /\ count' = 0
          /\ Occupied(nodes') = {}
          /\ \A k \in Keys : get(nodes', k) = None /\ ~contains_key(nodes', k)
          /\ backing_vec_size(nodes') = backing_vec_size(nodes)
          /\ capacity(nodes') = capacity(nodes)
          /\ Len(dropped') = 2 * count
          /\ \A p \in Occupied(nodes) :
                /\ Cardinality({i \in DOMAIN dropped' : dropped'[i] = K(nodes[p].key)}) = 1
                /\ Cardinality({i \in DOMAIN dropped' : dropped'[i] = V(nodes[p].value)})
                     = Cardinality({q \in Occupied(nodes) : nodes[q].value = nodes[p].value})
                /\ droppable =>
                     Cardinality({q \in Occupied(nodes) : nodes[q].value = nodes[p].value}) = 1]_vars

\* clear has emptied a map of two or more entries whose size is not new()'s
C17_Witness ==
    /\ op.name = "clear"
    /\ droppable
    /\ Len(dropped) >= 4
    /\ count = 0
    /\ backing_vec_size(nodes) # NewSize

\* the lookups that give a signal value
QuietLookups == {"get", "get_mut", "get_key_value", "contains_key", "remove"}

\* C18: indexing by an absent key panics; get, get_mut, get_key_value,
\* contains_key and remove on an absent key return None / false and do not
\* panic (no lookup but the index panics, on any key); indexing by a present
\* key returns what get returns.
C18_OnlyIndexPanics ==
    [][/\ op'.name = "index" =>
            IF contains_key(nodes, op'.key.p)
            THEN panic' = NoPanic /\ ret' = get(nodes, op'.key.p) /\ IsSome(ret')
            ELSE panic' = NoEntryFound
       /\ op'.name \in QuietLookups => panic' = NoPanic
       /\ op'.name \in QuietLookups /\ ~contains_key(nodes, op'.key.p) =>
            /\ ret' = (IF op'.name = "contains_key" THEN Some(FALSE) ELSE None)
            /\ nodes' = nodes
            /\ count' = count]_vars

\* the map holds entries and an index by a key it does not hold has panicked
C18_Witness ==
    /\ op.name = "index"
    /\ panic = NoEntryFound
    /\ count >= 2
    /\ ~contains_key(nodes, op.key.p)

\* C19: a map made by with_capacity(n) does not resize while it holds at most
\* n entries: no insert that leaves len at n or less changes the backing size
\* or capacity(), so inserting any n distinct keys leaves both as they were
\* made.
C19_WithCapacityHolds ==
    [][op'.name = "insert" /\ count' <= requested =>
          /\ resizes' = 0
          /\ panic' = NoPanic
          /\ backing_vec_size(nodes') = backing_vec_size(nodes)
          /\ capacity(nodes') = capacity(nodes)]_vars

\* with_capacity(MaxCap) holds MaxCap distinct keys in the table it was made with
C19_Witness ==
    /\ requested = MaxCap
    /\ count = requested
    /\ op.name = "insert" /\ ret = None
    /\ backing_vec_size(nodes) = backing_vec_size(with_capacity_in(requested).nodes)

\* C20, as claimed: in every state the map's public operations reach, len()
\* is the number of Occupied slots of the backing array.
C20_LenAlwaysOccupied ==
    len = Cardinality(Occupied(nodes))

\* C20, amended: len() is the number of Occupied slots in every state but
\* those of a map that into_iter consumed; there the IterOwned has taken the
\* entries it yielded out of their slots and len() stays what it was: the
\* number of Occupied slots plus the number of entries yielded.
C20_LenIsOccupied ==
    len = Cardinality(Occupied(nodes)) + (IF phase = "owned" THEN it.num_found ELSE 0)

\* a map of three entries was consumed and its IterOwned has yielded one
C20_Witness ==
    /\ phase = "owned"
    /\ len = 3
    /\ it.num_found = 1
    /\ Cardinality(Occupied(nodes)) = 2

\* C21: after every operation on a map, len() <= capacity() =
\* floor(backing size * 85 / 100), which is less than the backing size: at
\* least one slot is Empty.
C21_BelowLoadThreshold ==
    phase # "dropped" =>
        /\ len <= (backing_vec_size(nodes) * 85) \div 100
        /\ len <= capacity(nodes)
        /\ capacity(nodes) < backing_vec_size(nodes)
        /\ \E p \in DOMAIN nodes : ~nodes[p].has

\* an insert has filled a table up to its threshold without growing it
C21_Witness ==
    /\ op.name = "insert" /\ ret = None
    /\ resizes = 0
    /\ len = capacity(nodes)
    /\ len >= 3

\* the ideal bucket of key k in the table ns
Bucket(ns, k) == Hash(k) % backing_vec_size(ns)

\* the number of probe steps from bucket b to slot p, round the array
Steps(ns, b, p) == (p + backing_vec_size(ns) - b) % backing_vec_size(ns)

\* C22: after any inserts, removes, retains and resizes, the dib of every
\* Occupied slot p is the number of probe steps from the ideal bucket of its
\* key (hash mod size) to p.
C22_DibIsDistance ==
    \A p \in Occupied(nodes) :
        nodes[p].dib = Steps(nodes, Bucket(nodes, nodes[p].key.p), p)

\* a retain or a remove has shifted an entry back, across the end of a table
\* that has grown, and an entry still sits away from its bucket
C22_Witness ==
    /\ op.name \in {"remove", "retain"}
    /\ Len(dropped) >= 1
    /\ backing_vec_size(nodes) >= 8
    /\ \E p \in Occupied(nodes) : nodes[p].dib >= 1 /\ p < Bucket(nodes, nodes[p].key.p)

\* the slots that hold key k
SlotsOf(ns, k) == {p \in Occupied(ns) : ns[p].key.p = k}

\* C23: after any inserts, removes, retains and resizes, Locate with early
\* termination finds every stored key at its slot and gives None for every
\* key that is not stored.
C23_LocateFindsStored ==
    \A k \in MoreKeys :
        \A found \in {location(nodes, k, Hash(k))}, slots \in {SlotsOf(nodes, k)} :
            IF slots = {} THEN found = None
            ELSE IsSome(found) /\ Unwrap(found) \in slots

\* a stored key is found away from its bucket, and the probe for a key that
\* is not stored ends early, at an Occupied slot nearer to its own bucket
C23_Witness ==
    /\ \E k \in MoreKeys :
          /\ IsSome(location(nodes, k, Hash(k)))
          /\ nodes[Unwrap(location(nodes, k, Hash(k)))].dib >= 1
    /\ \E j \in MoreKeys, d \in 1 .. backing_vec_size(nodes) - 1 :
          /\ SlotsOf(nodes, j) = {}
          /\ \A e \in 0 .. d :
                nodes[(Bucket(nodes, j) + e) % backing_vec_size(nodes)].has
          /\ \A e \in 0 .. d - 1 :
                nodes[(Bucket(nodes, j) + e) % backing_vec_size(nodes)].dib >= e
          /\ nodes[(Bucket(nodes, j) + d) % backing_vec_size(nodes)].dib < d

\* C24: after any inserts, removes, retains and resizes, no probe run has a
\* gap: the slot before an Occupied slot of dib d > 0 (round the array) is
\* Occupied, with a dib of d - 1 or more.
C24_NoGapInRun ==
    \A p \in Occupied(nodes) :
        nodes[p].dib > 0 =>
            \A q \in {(p + backing_vec_size(nodes) - 1) % backing_vec_size(nodes)} :
                nodes[q].has /\ nodes[q].dib >= nodes[p].dib - 1

\* a remove or retain has taken an entry out of a run of three or more, and
\* entries are left that sit away from their buckets
C24_Witness ==
    /\ op.name \in {"remove", "retain"}
    /\ Len(dropped) >= 1
    /\ Cardinality({p \in Occupied(nodes) : nodes[p].dib > 0}) >= 2

\* C25: when insert runs insert_new, after its resize check, the backing
\* array has an Empty slot, and the walk ends having probed at most `size`
\* slots, one after the other round the array: none twice.
C25_InsertWalkTerminates ==
    [][op'.name = "insert" /\ ~contains_key(nodes, op'.key.p) =>
          \A table \in {IF capacity(nodes) <= len
                         THEN resize(nodes, GrowTo(nodes)).nodes ELSE nodes} :
              \A walk \in {insert_new(table, op'.key, op'.value, Hash(op'.key.p))} :
                  /\ \E p \in DOMAIN table : ~table[p].has
                  /\ walk.loc \in DOMAIN table
                  /\ walk.probes <= backing_vec_size(table)
                  /\ nodes' = walk.nodes
                  /\ panic' = NoPanic]_vars

\* an insert has walked past two residents, round the end of the array, and
\* displaced a third entry
C25_Witness ==
    /\ op.name = "insert" /\ ret = None
    /\ panic = NoPanic
    /\ \E p \in SlotsOf(nodes, op.key.p) :
          /\ nodes[p].dib >= 2
          /\ nodes[(p + 1) % backing_vec_size(nodes)].has
          /\ nodes[(p + 1) % backing_vec_size(nodes)].dib >= 1
          /\ Bucket(nodes, nodes[(p + 1) % backing_vec_size(nodes)].key.p)
               # Bucket(nodes, op.key.p)

\* the calls that put a key in and the calls that take one out
Inserts == {"insert", "or_insert", "vacant_insert"}
Removes == {"remove", "occupied_remove", "remove_entry"}

\* the key an insert or remove is about: an Entry's key, or the key handed in
KeyOf(o, e) == IF o.name \in EntryOps THEN e.key.p ELSE o.key.p

\* C26: an insert of a key that is not in the map resizes exactly when
\* len() >= floor(size * 85 / 100) beforehand, once, to twice the size, and
\* the new threshold is above len(); an insert of a key that is in the map,
\* and a remove, do not resize.
C26_ResizePolicy ==
    [][/\ op'.name \in Inserts /\ ~contains_key(nodes, KeyOf(op', entry)) =>
            /\ panic' = NoPanic
            /\ IF len >= (backing_vec_size(nodes) * 85) \div 100
               THEN /\ resizes' = 1
                    /\ backing_vec_size(nodes') = 2 * backing_vec_size(nodes)
                    /\ capacity(nodes') > len
               ELSE /\ resizes' = 0
                    /\ backing_vec_size(nodes') = backing_vec_size(nodes)
       /\ \/ op'.name \in Inserts /\ contains_key(nodes, KeyOf(op', entry))
          \/ op'.name \in Removes
          => /\ resizes' = 0
             /\ backing_vec_size(nodes') = backing_vec_size(nodes)]_vars

\* an insert into a table of two slots that was at its threshold has made it
\* a table of four
C26_Witness ==
    /\ op.name = "insert"
    /\ resizes = 1
    /\ backing_vec_size(nodes) = 4
    /\ len = 2

\* the table sizes 1 << i whose threshold is above the capacity asked for
Fitting(cap) == {i \in 0 .. Attempts - 1 : Floor85(i) > cap}

\* C27: with_capacity_in(n) makes a table of the smallest power of two s in
\* 2^0 .. 2^31 with floor(s * 85 / 100) > n, and panics when there is none;
\* s * 85 / 100 does not overflow for any s it tries.
C27_SmallestFittingSize ==
    op.name = "with_capacity" =>
        /\ IF Fitting(requested) = {} THEN panic = CapacityPanic
           ELSE /\ panic = NoPanic
                /\ ret = Some(CHOOSE i \in Fitting(requested) :
                                 \A j \in Fitting(requested) : i <= j)
        /\ \A n \in DOMAIN calls : ~calls[n].overflow

\* C27 on the builds whose usize has 64 bits
C27_On64Bits ==
    op.name = "with_capacity" /\ op.build.bits = 64 => C27_SmallestFittingSize

\* C27 for the capacities below floor(2^25 * 85 / 100), on every build
C27_BelowOverflow ==
    op.name = "with_capacity" /\ requested < Floor85(25) => C27_SmallestFittingSize

\* what a caller sees of a map m = [nodes, count, ..]: its pairs, len() and
\* capacity()
Seen(m) == <<PairsOf(m.nodes), m.count, capacity(m.nodes)>>

Drops(d, o) == Cardinality({i \in DOMAIN d : d[i] = o})

\* C29: when an owning iterator is dropped after it yielded only some of the
\* entries, every key and value it has not yielded is dropped exactly once
\* (values without identity: as many drops as un-yielded slots that hold the
\* value), and nothing it has yielded is dropped: the slots it took from are
\* Empty when the map in it is destroyed.
C29_PartialDrop ==
    [][phase = "owned" /\ op'.name = "drop" =>
          \A all \in {PairsFrom(snap, 0)} :
              \A n \in {Len(yielded)} :
                  /\ yielded = SubSeq(all, 1, n)
                  /\ PairsFrom(nodes, 0) = SubSeq(all, n + 1, Len(all))
                  /\ Len(dropped') = 2 * (Len(all) - n)
                  /\ \A i \in DOMAIN all :
                        /\ Drops(dropped', K(all[i][1]))
                             = Cardinality({j \in n + 1 .. Len(all) : all[j][1] = all[i][1]})
                        /\ Drops(dropped', V(all[i][2]))
                             = Cardinality({j \in n + 1 .. Len(all) : all[j][2] = all[i][2]})
                        /\ Drops(dropped', K(all[i][1])) = (IF i > n THEN 1 ELSE 0)
                        /\ droppable =>
                             Drops(dropped', V(all[i][2])) = (IF i > n THEN 1 ELSE 0)]_vars

\* an owning iterator over drop-tracked entries was dropped after it yielded
\* some of them, with two or more entries still in the map
C29_Witness ==
    /\ phase = "dropped"
    /\ op.name = "drop"
    /\ droppable
    /\ Len(yielded) >= 1
    /\ Len(dropped) >= 4

\* C30: after any sequence of insert, remove, retain, resize and entry
\* operations no two Occupied slots hold equal keys: each key is stored at
\* most once, and len() is the number of distinct keys stored.
C30_KeysStoredOnce ==
    phase \in {"map", "iter"} =>
        /\ \A p, q \in Occupied(nodes) : nodes[p].key.p = nodes[q].key.p => p = q
        /\ len = Cardinality({nodes[p].key.p : p \in Occupied(nodes)})

\* an insert has overwritten the value of a stored key in a map of two or more
\* entries, one of them away from its bucket
C30_Witness ==
    /\ phase = "map"
    /\ op.name = "insert"
    /\ IsSome(ret)
    /\ count >= 2
    /\ \E p \in Occupied(nodes) : nodes[p].dib >= 1

\* how many times f was called on the entry of key k
CallsOn(cl, k) == Cardinality({i \in DOMAIN cl : cl[i][1].p = k})

\* C31: retain(f) invokes f exactly once for each entry that was in the map
\* when retain was called, also when a backward shift during the scan moves
\* an entry from position 0 across the end of the array to the last position,
\* which the scan has not reached yet.
C31_RetainCallsOnce ==
    [][op'.name = "retain" =>
          /\ Len(calls') = count
          /\ \A p \in Occupied(nodes) : CallsOn(calls', nodes[p].key.p) = 1]_vars

\* retain(f) invokes f on every entry that was in the map and on nothing
\* else, once or twice; once when no probe run wraps round the end of the
\* array, and twice only on entries f has kept.
C31_RetainCallsOnceOrTwice ==
    [][op'.name = "retain" =>
          /\ \A i \in DOMAIN calls' :
                \E p \in Occupied(nodes) :
                    calls'[i] = <<nodes[p].key, nodes[p].value>>
          /\ \A p \in Occupied(nodes) :
                \A n \in {CallsOn(calls', nodes[p].key.p)} :
                    /\ n \in {1, 2}
                    /\ n = 2 => /\ \E q \in Occupied(nodes) : nodes[q].dib > q
                                /\ Pred(op'.f, nodes[p].key, nodes[p].value)]_vars

\* C35: a TileSetReference returned by add_tileset never equals (same id and
\* same generation) a reference returned by an earlier add_tileset whose tile
\* set has since been removed, for any number of add_tileset calls, more than
\* the 16-bit generation counter can count included.
C35_ReferencesNeverRepeat ==
    [][op'.name = "add_tileset" /\ IsSome(ret') =>
          \A g \in given : ~Live(manager, g.ref) => g.ref # Unwrap(ret')]_vars

\* a reference is stale: its arena slot has been freed, or holds a tile set of
\* another generation
Stale(m, tile_set_ref) == ~Live(m, tile_set_ref)

\* C33: remove_tileset called through a stale reference (one whose arena slot
\* has already been freed, or has been reused by a tile set with a different
\* generation) aborts with a panic and leaves the tile set arena and its free
\* list unchanged.
C33_StaleRemovePanics ==
    [][op'.name = "remove_tileset" /\ Stale(manager, op'.ref) =>
          /\ panic' # NoPanic
          /\ manager'.tilesets = manager.tilesets
          /\ manager'.free_pointer = manager.free_pointer]_vars

\* what holds of remove_tileset through a stale reference: it panics and
\* changes nothing when the arena slot is free, on every build, and when the
\* slot holds another generation, on a build with debug assertions
C33_StaleRemovePanicsInDebug ==
    [][/\ op'.name = "remove_tileset"
       /\ Stale(manager, op'.ref)
       /\ debug_assertions \/ manager.tilesets[op'.ref.id].kind # "Data"
       => panic' # NoPanic /\ manager' = manager]_vars

\* the VRAM slots counted for the tile t of the tile set in arena slot id
CountedFor(m, id, t) ==
    {i \in DOMAIN m.references :
        /\ m.references[i].kind = "ReferenceCounted"
        /\ m.references[i].count >= 1
        /\ m.references[i].tile_ref = TileReference(id, t)}

\* C34: after any sequence of add_tileset, remove_tileset, add_tile and
\* remove_tile calls made with references and indices returned by earlier
\* calls, tile_set_to_vram[id][t] names VRAM index i exactly when
\* references[i] is ReferenceCounted with count >= 1 for TileReference(id, t):
\* every counted slot is named by the entry of its tile, no two slots are
\* counted for the same (id, t), remove_tile does not index out of bounds, and
\* the free pointers only ever point at free entries.
C34_MappingMatchesReferences ==
    /\ ~(op.name = "remove_tile" /\ panic = IndexOutOfBounds)
    /\ phase = "vram" =>
        \A m \in {manager} :
            /\ \A id \in DOMAIN m.tile_set_to_vram :
                  \A t \in DOMAIN m.tile_set_to_vram[id] :
                      \A i \in DOMAIN m.references :
                          (/\ m.tile_set_to_vram[id][t] # Default
                           /\ m.tile_set_to_vram[id][t][1] = i)
                          <=> i \in CountedFor(m, id, t)
            /\ \A i \in DOMAIN m.references :
                  m.references[i].kind = "ReferenceCounted" =>
                      /\ m.references[i].count >= 1
                      /\ m.references[i].tile_ref[1] \in DOMAIN m.tile_set_to_vram
                      /\ m.references[i].tile_ref[2]
                           \in DOMAIN m.tile_set_to_vram[m.references[i].tile_ref[1]]
            /\ \A i, j \in DOMAIN m.references :
                  /\ m.references[i].kind = "ReferenceCounted"
                  /\ m.references[j].kind = "ReferenceCounted"
                  /\ m.references[i].tile_ref = m.references[j].tile_ref
                  => i = j
            /\ IsSome(m.free_pointer) =>
                  m.tilesets[Unwrap(m.free_pointer)].kind # "Data"
            /\ \A id \in DOMAIN m.tilesets :
                  m.tilesets[id].kind = "NextFree" =>
                      m.tilesets[m.tilesets[id].next].kind # "Data"
            /\ IsSome(m.vram_free_pointer) =>
                  m.references[Unwrap(m.vram_free_pointer)].kind = "Free"
            /\ \A i \in DOMAIN m.references :
                  /\ m.references[i].kind = "Free"
                  /\ m.references[i].next # END_OF_FREE_LIST_MARKER
                  => m.references[m.references[i].next].kind = "Free"

\* what holds whatever the calls: the free pointers only ever point at free
\* entries, a counted slot has a count of 1 or more, the entry of a tile names
\* only a slot counted for that tile, and no call reaches undefined behaviour
C34_FreeListsSound ==
    /\ panic # Undefined
    /\ phase = "vram" =>
        \A m \in {manager} :
            /\ \A id \in DOMAIN m.tile_set_to_vram :
                  \A t \in DOMAIN m.tile_set_to_vram[id] :
                      m.tile_set_to_vram[id][t] # Default =>
                          m.tile_set_to_vram[id][t][1] \in CountedFor(m, id, t)
            /\ \A i \in DOMAIN m.references :
                  m.references[i].kind = "ReferenceCounted" => m.references[i].count >= 1
            /\ IsSome(m.free_pointer) =>
                  m.tilesets[Unwrap(m.free_pointer)].kind # "Data"
            /\ \A id \in DOMAIN m.tilesets :
                  m.tilesets[id].kind = "NextFree" =>
                      m.tilesets[m.tilesets[id].next].kind # "Data"
            /\ IsSome(m.vram_free_pointer) =>
                  m.references[Unwrap(m.vram_free_pointer)].kind = "Free"
            /\ \A i \in DOMAIN m.references :
                  /\ m.references[i].kind = "Free"
                  /\ m.references[i].next # END_OF_FREE_LIST_MARKER
                  => m.references[m.references[i].next].kind = "Free"

\* the VRAM slot i is on the free list that starts at p
RECURSIVE OnFreeList(_, _, _, _)
OnFreeList(m, p, i, fuel) ==
    /\ IsSome(p)
    /\ fuel > 0
    /\ \/ Unwrap(p) = i
       \/ /\ m.references[Unwrap(p)].kind = "Free"
          /\ OnFreeList(m, IF m.references[Unwrap(p)].next = END_OF_FREE_LIST_MARKER
                           THEN None ELSE Some(m.references[Unwrap(p)].next),
                        i, fuel - 1)

\* the TileIndex values of VRAM slot i the caller has
HandlesOf(hs, i) == {h \in hs : h.index = i}

\* C32: add_tile(ts, t) for a (tile set, tile) that is already resident (ts is
\* in the arena and the caller has a TileIndex of its tile t) returns
\* the same TileIndex as the call that loaded it and only increments its
\* reference count; a VRAM slot is Free, and on the free list for a later
\* add_tile, exactly when remove_tile has been called on its index as many
\* times as add_tile returned it; index 0 is never returned by add_tile.
C32_ResidentTileShared ==
    [][/\ op'.name = "add_tile" /\ panic' = NoPanic /\ Live(manager, op'.ref) =>
             /\ ret' # Some(0)
             /\ \A h \in in_use :
                   h.ref = op'.ref /\ h.tile = op'.tile =>
                       /\ ret' = Some(h.index)
                       /\ manager' = [manager EXCEPT !.references[h.index].count = @ + 1]
       /\ phase' = "vram" =>
             \A i \in DOMAIN manager'.references \ {0} :
                 /\ manager'.references[i].kind = "Free" <=> HandlesOf(in_use', i) = {}
                 /\ manager'.references[i].kind = "Free" =>
                       OnFreeList(manager', manager'.vram_free_pointer, i,
                                  VecLen(manager'.references))
                 /\ \A h \in HandlesOf(in_use', i) :
                       manager'.references[i].count = h.n]_vars

====
